---------------------------- MODULE Spec2Model ----------------------------
(***************************************************************************)
(* Recouple: the seeded draft generator (src/unnamed/part_001) and the     *)
(* scoring engine with its brute-force optimal search                      *)
(* (src/unnamed/part_000).                                                 *)
(*                                                                         *)
(* JavaScript arrays are modelled as functions over 0..n-1 where the code  *)
(* indexes them (board, c, SLOT_TAGS) and as sequences where the code only *)
(* pushes and iterates (connections, coupleEdges, rounds, options).        *)
(***************************************************************************)
EXTENDS Integers, Sequences, FiniteSets, TLC

VARIABLES
    \* ---- Scoring.calculateScore and its caller's board ----
    board,          \* the caller's board: 0..8 -> card or NULL
    score,          \* the breakdown returned by the last calculateScore call
    prevScore,      \* the breakdown returned by the call before that
    calls,          \* number of calculateScore calls since the board changed
    \* ---- Scoring.calculateOptimal (one call) ----
    optPc,          \* "idle" before the call, "done" after it
    optCards,       \* the cards argument (a sequence), or NULL when absent
    optCurrent,     \* the currentScore argument
    optEvals,       \* number of _fastScore evaluations the call made
    optResult,      \* the returned {optimalScore, percentage}, or NULL
    \* ---- Draft.generateAllRounds and its caller's pool ----
    contestants,    \* the caller's contestant array
    seedArg,        \* the seed the caller passes
    draftOut,       \* the rounds returned by the calls made so far
    callerRng,      \* the seed captured by the caller's mulberry32 closure
    shuffleOut,     \* what the last seededShuffle call did, or NULL
    rollOut,        \* what the rollStarRating calls made so far did
    \* ---- Draft.getDailySeed on the players' clients ----
    dateStr,        \* the date string "YYYY-MM-DD" as [year, month, day]
    gameIndex,      \* the game number: 1, 2 or 3
    clientSeed,     \* per client (its UTC offset): the seed it derived, or NULL
    \* ---- Game: the controller's state object (board and score are above) ----
    phase,          \* state.phase: "idle", "drafting", "optimizing", "completed"
    stateRound,     \* state.round
    drafted,        \* state.drafted
    selectedIndex,  \* state.selectedIndex, NO_SELECTION for null
    allRounds,      \* state.allRounds
    stateDate,      \* state.date
    stateGameNumber,\* state.gameNumber
    savedState,     \* the game_state entry of localStorage, or NULL
    draftMemo,      \* what generateAllRounds returns for each game setup
    \* ---- the permutation loop of calculateOptimal, stretch by stretch ----
    permSt,         \* the locals board, c, i, bestScore (and evals), or NULL
    permSeen,       \* the record of the arrangements _fastScore was called on
    \* ---- Storage (localStorage) and the clock, as the Game module sees them ----
    today,          \* what Storage.todayStr() returns now
    progress,       \* the daily_<date> entries: per date key, per game
    stats,          \* the stats entry, or NULL when absent
    returned        \* what the last tryResume / completeGame call returned

scoreVars == <<board, score, prevScore, calls>>
optVars == <<optPc, optCards, optCurrent, optEvals, optResult>>
draftVars == <<contestants, seedArg, draftOut, callerRng, shuffleOut, rollOut>>
seedVars == <<dateStr, gameIndex, clientSeed>>
gameVars == <<phase, stateRound, drafted, selectedIndex, allRounds, stateDate,
              stateGameNumber, savedState, draftMemo>>
permVars == <<permSt, permSeen>>
storeVars == <<today, progress, stats>>
dayVars == <<today, progress, stats, returned>>
vars == <<scoreVars, optVars, draftVars, seedVars, gameVars, permVars, dayVars>>

\* JavaScript null / undefined, where an object or an array may stand.
NULL == [null |-> TRUE]

\* null where a tag string may stand (a WILD entry of SLOT_TAGS).
NULL_TAG == "null"

\* A field that holds true, false or null (cell.isValid).
Tri(b) == IF b THEN "true" ELSE "false"

-----------------------------------------------------------------------------
(***************************************************************************)
(* Static tables of the scoring engine.                                    *)
(***************************************************************************)
NUM_SLOTS == 9

EDGES ==
    << <<0, 1>>, <<0, 2>>, <<0, 3>>, <<1, 4>>, <<1, 5>>, <<3, 4>>, <<3, 2>>,
       <<4, 5>>, <<3, 6>>, <<3, 8>>, <<4, 7>>, <<4, 8>>, <<2, 6>>, <<5, 7>>,
       <<6, 8>>, <<7, 8>> >>

\* ADJACENCY[a] collects, in edge order, b for every edge [a,b] or [b,a].
RECURSIVE AdjacencyUpTo(_, _)
AdjacencyUpTo(s, k) ==
    IF k = 0 THEN << >>
    ELSE LET e == EDGES[k]
             rest == AdjacencyUpTo(s, k - 1)
         IN  IF e[1] = s THEN Append(rest, e[2])
             ELSE IF e[2] = s THEN Append(rest, e[1])
             ELSE rest

ADJACENCY == [s \in 0 .. (NUM_SLOTS - 1) |-> AdjacencyUpTo(s, Len(EDGES))]

SLOT_TAGS ==
    [s \in 0 .. (NUM_SLOTS - 1) |->
        CASE s = 1 -> "bombshell"
          [] s = 3 -> "usa"
          [] s = 4 -> "uk"
          [] s = 8 -> "casa"
          [] OTHER -> NULL_TAG]

SLOT_MATCH_PTS == 2
COUNTRY_MATCH_PTS == 2
SEASON_MATCH_PTS == 1
COUNTRY_SEASON_COMBO == 2
COUPLE_BONUS_PTS == 4

RARITY_BASE == [t \in 1 .. 4 |-> t - 1]

\* RARITY_BASE[c.stars] || 0
RarityPoints(stars) ==
    IF stars \in DOMAIN RARITY_BASE THEN RARITY_BASE[stars] ELSE 0

\* Faulty variant: the wildcard test is left out, so the slot's null tag is
\* looked up in the card's tags like any other.
isValidPlacementTagOnly(contestant, slotIndex) ==
    IF contestant = NULL THEN FALSE
    ELSE SLOT_TAGS[slotIndex] \in contestant.tags

isValidPlacement(contestant, slotIndex) ==
    IF contestant = NULL THEN FALSE
    ELSE IF SLOT_TAGS[slotIndex] = NULL_TAG THEN TRUE
    ELSE SLOT_TAGS[slotIndex] \in contestant.tags

isWildSlot(slotIndex) == SLOT_TAGS[slotIndex] = NULL_TAG

getNeighbors(slotIndex) == ADJACENCY[slotIndex]

\* Faulty variant: only the cell's own couple field is consulted.
IsCoupleOneWay(c, nc) == c.couple # "" /\ c.couple = nc.name

\* (c.couple && c.couple === nc.name) || (nc.couple && nc.couple === c.name)
IsCouple(c, nc) ==
    \/ (c.couple # "" /\ c.couple = nc.name)
    \/ (nc.couple # "" /\ nc.couple = c.name)

\* Faulty variant: sharing show and season earns the two awards and no
\* combo bonus on top.
ConnectionNoCombo(c, nc, ni) ==
    LET sameCountry == c.show = nc.show
        sameSeason == c.seasonNum = nc.seasonNum
        points == (IF sameCountry THEN COUNTRY_MATCH_PTS ELSE 0)
                    + (IF sameSeason THEN SEASON_MATCH_PTS ELSE 0)
                    + (IF IsCouple(c, nc) THEN COUPLE_BONUS_PTS ELSE 0)
    IN  [neighborIndex |-> ni,
         neighborName |-> nc.name,
         points |-> points,
         types |-> (IF sameCountry THEN <<"country">> ELSE << >>)
                      \o (IF sameSeason THEN <<"season">> ELSE << >>)
                      \o (IF IsCouple(c, nc) THEN <<"couple">> ELSE << >>)]

\* The conn object built for cell card c and neighbour card nc at slot ni.
Connection(c, nc, ni) ==
    LET sameCountry == c.show = nc.show
        sameSeason == c.seasonNum = nc.seasonNum
        base ==
            IF sameCountry /\ sameSeason
            THEN [points |-> COUNTRY_MATCH_PTS + SEASON_MATCH_PTS
                                + COUNTRY_SEASON_COMBO,
                  types |-> <<"combo">>]
            ELSE [points |-> (IF sameCountry THEN COUNTRY_MATCH_PTS ELSE 0)
                                + (IF sameSeason THEN SEASON_MATCH_PTS ELSE 0),
                  types |-> (IF sameCountry THEN <<"country">> ELSE << >>)
                                \o (IF sameSeason THEN <<"season">> ELSE << >>)]
    IN  [neighborIndex |-> ni,
         neighborName |-> nc.name,
         points |-> base.points + (IF IsCouple(c, nc) THEN COUPLE_BONUS_PTS ELSE 0),
         types |-> base.types \o (IF IsCouple(c, nc) THEN <<"couple">> ELSE << >>)]

\* The connections pushed for cell i after visiting the first k neighbours.
RECURSIVE CellConnections(_, _, _)
CellConnections(b, i, k) ==
    IF k = 0 THEN << >>
    ELSE LET ni == ADJACENCY[i][k]
             rest == CellConnections(b, i, k - 1)
         IN  IF b[ni] = NULL THEN rest
             ELSE LET conn == Connection(b[i], b[ni], ni)
                  IN  IF conn.points > 0 THEN Append(rest, conn) ELSE rest

RECURSIVE SumPoints(_, _)
SumPoints(conns, k) ==
    IF k = 0 THEN 0 ELSE SumPoints(conns, k - 1) + conns[k].points

\* One iteration of the per-cell loop of calculateScore.
ScoreCell(b, i) ==
    LET c == b[i]
        empty == [index |-> i, contestant |-> c, slotTag |-> SLOT_TAGS[i],
                  isValid |-> "null", isWild |-> isWildSlot(i),
                  slotPoints |-> 0, rarityPoints |-> 0, connectionPoints |-> 0,
                  totalPoints |-> 0, connections |-> << >>]
    IN  IF c = NULL THEN empty
        ELSE LET valid == isValidPlacement(c, i)
                 slotPoints == IF ~isWildSlot(i) /\ valid THEN SLOT_MATCH_PTS ELSE 0
                 rarityPoints == RarityPoints(c.stars)
                 conns == CellConnections(b, i, Len(ADJACENCY[i]))
                 connectionPoints == SumPoints(conns, Len(conns))
             IN  [empty EXCEPT !.isValid = Tri(valid),
                               !.slotPoints = slotPoints,
                               !.rarityPoints = rarityPoints,
                               !.connectionPoints = connectionPoints,
                               !.totalPoints = slotPoints + rarityPoints
                                                 + connectionPoints,
                               !.connections = conns]

RECURSIVE SumField(_, _, _)
SumField(cells, f, n) ==
    IF n = 0 THEN 0 ELSE SumField(cells, f, n - 1) + cells[n - 1][f]

Min(a, b) == IF a < b THEN a ELSE b
Max(a, b) == IF a < b THEN b ELSE a

\* Faulty variant: the key keeps the order cell-neighbour, so the two
\* directions of one edge get different keys.
EdgeKeyDirected(a, b) == <<a, b>>

\* The key Math.min(..) + '-' + Math.max(..) of a couple connection.
EdgeKey(a, b) == <<Min(a, b), Max(a, b)>>

IsCoupleConn(conn) == \E t \in 1 .. Len(conn.types) : conn.types[t] = "couple"

\* The dedup loops over cells 0..n-1 and, in cell n-1, connections 1..k:
\* returns the list pushed so far and the set of keys counted so far.
RECURSIVE CoupleScan(_, _, _, _)
CoupleScan(cells, n, k, counted0) ==
    IF n = 0 THEN [edges |-> << >>, counted |-> counted0]
    ELSE IF k = 0
    THEN IF n = 1 THEN [edges |-> << >>, counted |-> counted0]
         ELSE CoupleScan(cells, n - 1, Len(cells[n - 2].connections), counted0)
    ELSE LET prev == CoupleScan(cells, n, k - 1, counted0)
             cs == cells[n - 1]
             conn == cs.connections[k]
             key == EdgeKey(cs.index, conn.neighborIndex)
         IN  IF IsCoupleConn(conn) /\ key \notin prev.counted
             THEN [edges |-> Append(prev.edges,
                                    [index1 |-> cs.index,
                                     index2 |-> conn.neighborIndex]),
                   counted |-> prev.counted \cup {key}]
             ELSE prev

\* Faulty variant: counted is a module-level Set, so it still holds the keys
\* of the edges reported by the previous call.
CoupleEdgesSharedSet(cells) ==
    CoupleScan(cells, NUM_SLOTS, Len(cells[NUM_SLOTS - 1].connections),
               IF score = NULL THEN {}
               ELSE {EdgeKey(score.coupleEdges[k].index1, score.coupleEdges[k].index2) :
                        k \in 1 .. Len(score.coupleEdges)}).edges

\* const coupleEdges = []; const counted = new Set(); and the two loops.
CoupleEdges(cells) ==
    CoupleScan(cells, NUM_SLOTS, Len(cells[NUM_SLOTS - 1].connections), {}).edges

\* Faulty variant: some() in place of every().
AllFilledSome(b) == \E i \in DOMAIN b : b[i] # NULL

\* allFilled: board.every(c => c !== null)
AllFilled(b) == \A i \in DOMAIN b : b[i] # NULL

\* Faulty variant: an empty slot does not count against validity.
AllValidSkippingEmpty(b) ==
    \A i \in DOMAIN b : b[i] = NULL \/ isValidPlacement(b[i], i)

\* allValid: board.every((c, i) => c && isValidPlacement(c, i))
AllValid(b) == \A i \in DOMAIN b : b[i] # NULL /\ isValidPlacement(b[i], i)

calculateScore(b) ==
    LET cellScores == [i \in 0 .. (NUM_SLOTS - 1) |-> ScoreCell(b, i)]
        totalSlot == SumField(cellScores, "slotPoints", NUM_SLOTS)
        totalRarity == SumField(cellScores, "rarityPoints", NUM_SLOTS)
        totalConnections == SumField(cellScores, "connectionPoints", NUM_SLOTS)
    IN  [total |-> totalSlot + totalRarity + totalConnections,
         totalSlot |-> totalSlot,
         totalRarity |-> totalRarity,
         totalConnections |-> totalConnections,
         gridBonus |-> 0,
         allFilled |-> AllFilled(b),
         allValid |-> AllValid(b),
         cellScores |-> cellScores,
         coupleEdges |-> CoupleEdges(cellScores),
         edgeCount |-> Len(EDGES)]

-----------------------------------------------------------------------------
(***************************************************************************)
(* The optimal-score search.                                               *)
(***************************************************************************)
\* First loop of _fastScore: slot and rarity points of slots 0..n-1.
RECURSIVE FastCells(_, _)
FastCells(b, n) ==
    IF n = 0 THEN 0
    ELSE LET c == b[n - 1]
             tag == SLOT_TAGS[n - 1]
         IN  FastCells(b, n - 1)
             + (IF c = NULL THEN 0
                ELSE (IF tag # NULL_TAG /\ tag \in c.tags THEN SLOT_MATCH_PTS ELSE 0)
                     + RarityPoints(c.stars))

\* The value e of one edge in the second loop of _fastScore.
FastEdge(ca, cb) ==
    LET sc == ca.show = cb.show
        ss == ca.seasonNum = cb.seasonNum
    IN  (IF sc /\ ss
         THEN COUNTRY_MATCH_PTS + SEASON_MATCH_PTS + COUNTRY_SEASON_COMBO
         ELSE (IF sc THEN COUNTRY_MATCH_PTS ELSE 0)
              + (IF ss THEN SEASON_MATCH_PTS ELSE 0))
        + (IF IsCouple(ca, cb) THEN COUPLE_BONUS_PTS ELSE 0)

\* Faulty variant: total += e, an edge counted for one endpoint only.
RECURSIVE FastEdgesOneEndpoint(_, _)
FastEdgesOneEndpoint(b, k) ==
    IF k = 0 THEN 0
    ELSE LET ca == b[EDGES[k][1]]
             cb == b[EDGES[k][2]]
         IN  FastEdgesOneEndpoint(b, k - 1)
             + (IF ca = NULL \/ cb = NULL THEN 0 ELSE FastEdge(ca, cb))

\* Second loop of _fastScore over the first k edges: total += e * 2.
RECURSIVE FastEdges(_, _)
FastEdges(b, k) ==
    IF k = 0 THEN 0
    ELSE LET ca == b[EDGES[k][1]]
             cb == b[EDGES[k][2]]
         IN  FastEdges(b, k - 1)
             + (IF ca = NULL \/ cb = NULL THEN 0 ELSE FastEdge(ca, cb) * 2)

_fastScore(b) == FastCells(b, 9) + FastEdges(b, Len(EDGES))

\* Math.round(x) of the double x = (cur / best) * 100 for integers cur >= 0,
\* best > 0.  The exact quotient 100*cur/best is within 1e-13 of x, so the
\* two round alike except on an exact tie k + 1/2, where the double product
\* is below the tie for the ratios (2k+1)/200 with k in TieRoundsDown and
\* Math.round then yields k instead of k + 1.
TieRoundsDown == {14, 28, 56, 57}

MathRoundPercent(cur, best) ==
    LET twice == (200 * cur) \div best
        tie == (200 * cur) % best = 0 /\ twice % 2 = 1
    IN  IF tie /\ (twice \div 2) \in TieRoundsDown
        THEN twice \div 2
        ELSE (200 * cur + best) \div (2 * best)

\* Faulty variant: a best score of zero yields 0 instead of 100.
PercentageZeroDefault(cur, best) ==
    IF best > 0 THEN MathRoundPercent(cur, best) ELSE 0

Percentage(cur, best) ==
    IF best > 0 THEN MathRoundPercent(cur, best) ELSE 100

\* [board[x], board[y]] = [board[y], board[x]]
Swap(b, x, y) == [b EXCEPT ![x] = b[y], ![y] = b[x]]

\* Faulty variant: the swap partner is slot 0 whatever the parity of i.
HeapSwapFirst(b, i, ci) == Swap(b, 0, i)

\* The swap Heap's algorithm makes at index i with counter value ci.
HeapSwap(b, i, ci) == IF i % 2 = 0 THEN Swap(b, 0, i) ELSE Swap(b, ci, i)

\* !cards || cards.length !== 9
IsFallback(cards) == cards = NULL \/ Len(cards) # 9

\* Faulty variant: the comparison is reversed.
WorseScore(best, sc) == IF sc < best THEN sc ELSE best

\* if (score > bestScore) bestScore = score
BetterScore(best, sc) == IF sc > best THEN sc ELSE best

\* One iteration of  while (i < 9)  on the locals board, c, i, bestScore
\* (evals counts the _fastScore calls); the locals stay put once i >= 9.
HeapStep(st) ==
    IF st.i >= 9 THEN st
    ELSE IF st.c[st.i] < st.i
    THEN LET swapped == HeapSwap(st.board, st.i, st.c[st.i])
         IN  [board |-> swapped,
              c |-> [st.c EXCEPT ![st.i] = st.c[st.i] + 1],
              i |-> 1,
              bestScore |-> BetterScore(st.bestScore, _fastScore(swapped)),
              evals |-> st.evals + 1]
    ELSE [st EXCEPT !.c = [st.c EXCEPT ![st.i] = 0], !.i = st.i + 1]

\* The while loop, cut off after n iterations.
RECURSIVE HeapRun(_, _)
HeapRun(st, n) ==
    IF n = 0 \/ st.i >= 9 THEN st
    ELSE IF n = 1 THEN HeapStep(st)
    ELSE HeapRun(HeapRun(st, n \div 2), n - (n \div 2))

\* More iterations than the loop makes on nine cards.
LoopFuel == 1024 * 1024

\* Faulty variant: board is the caller's array itself, so the caller finds
\* its cards in the order the last swap left them.
CardsAfterAliased(cards, b) == [k \in 1 .. Len(cards) |-> b[k - 1]]

\* const board = [...cards]: the loop permutes the copy, and the caller's
\* array is what it was.
CardsAfter(cards, b) == cards

\* Faulty variant: the refusal reports no score at all.
FallbackResultNoScore(currentScore) ==
    [optimalScore |-> 0, percentage |-> 100, evals |-> 0, exited |-> TRUE,
     board |-> NULL]

\* return { optimalScore: currentScore || 0, percentage: 100 }; currentScore
\* is a number, so  currentScore || 0  is currentScore.  No arrangement has
\* been scored and the loop was never entered.
FallbackResult(currentScore) ==
    [optimalScore |-> currentScore, percentage |-> 100, evals |-> 0,
     exited |-> TRUE, board |-> NULL]

\* The locals when the loop is entered: board = [...cards], the score of
\* that first arrangement, c all zero, i = 1.
HeapStart(cards) ==
    LET copy == [s \in 0 .. (Len(cards) - 1) |-> cards[s + 1]]
    IN  [board |-> copy,
         c |-> [s \in 0 .. 8 |-> 0],
         i |-> 1,
         bestScore |-> _fastScore(copy),
         evals |-> 1]

\* calculateOptimal(cards, currentScore): the returned object, the number
\* of arrangements scored and the local board as the loop left it.
calculateOptimal(cards, currentScore) ==
    IF IsFallback(cards)
    THEN FallbackResult(currentScore)
    ELSE LET final == HeapRun(HeapStart(cards), LoopFuel)
         IN  [optimalScore |-> final.bestScore,
              percentage |-> Percentage(currentScore, final.bestScore),
              evals |-> final.evals,
              exited |-> final.i >= 9,
              board |-> final.board]

\* const opt = Scoring.calculateOptimal(state.drafted, score.total)
CalculateOptimalCall ==
    /\ optPc = "idle"
    /\ \E r \in {calculateOptimal(optCards, optCurrent)} :
           /\ r.exited
           /\ optResult' = [optimalScore |-> r.optimalScore,
                            percentage |-> r.percentage]
           /\ optEvals' = r.evals
           /\ optCards' = IF r.evals = 0 THEN optCards
                          ELSE CardsAfter(optCards, r.board)
    /\ optPc' = "done"
    /\ UNCHANGED <<optCurrent, scoreVars, draftVars, seedVars, gameVars, permVars, dayVars>>

\* renderCompletion: with a score on record,
\* const opt = Scoring.calculateOptimal(state.drafted, score.total)
RenderCompletion ==
    /\ score # NULL
    /\ optPc = "idle"
    /\ optCurrent' = score.total
    /\ \E r \in {calculateOptimal(optCards, score.total)} :
           /\ r.exited
           /\ optResult' = [optimalScore |-> r.optimalScore,
                            percentage |-> r.percentage]
           /\ optEvals' = r.evals
           /\ optCards' = IF r.evals = 0 THEN optCards
                          ELSE CardsAfter(optCards, r.board)
    /\ optPc' = "done"
    /\ UNCHANGED <<scoreVars, draftVars, seedVars, gameVars, permVars, dayVars>>

-----------------------------------------------------------------------------
(***************************************************************************)
(* Inputs: a sample contestant database.                                   *)
(***************************************************************************)
NAMES ==
    <<"Ana", "Ben", "Cat", "Dan", "Eve", "Fay", "Gus", "Hal", "Ivy", "Jon",
      "Kim", "Leo", "Mia", "Ned", "Ola", "Pat", "Quin", "Rae", "Sam", "Tia",
      "Uma", "Vic", "Wes", "Xia", "Yul", "Zoe", "Abe", "Bea", "Cal", "Dee",
      "Eli", "Flo">>

\* Contestant k of the database: Ana and Ben name each other as couple, Cat
\* names Dan (one-sided), nobody else is coupled.
Contestant(k) ==
    LET show == IF k % 2 = 1 THEN "usa" ELSE "uk"
    IN  [id |-> k,
         name |-> NAMES[k],
         tags |-> {show} \cup (IF k % 3 = 0 THEN {"bombshell"} ELSE {})
                         \cup (IF k % 4 = 0 THEN {"casa"} ELSE {}),
         show |-> show,
         seasonNum |-> 1 + ((k \div 2) % 3),
         couple |-> CASE k = 1 -> "Ben" [] k = 2 -> "Ana" [] k = 3 -> "Dan"
                      [] OTHER -> ""]

\* { ...contestant, stars, starPoints: Scoring.RARITY_BASE[stars] }
DraftCard(contestant, stars) ==
    [id |-> contestant.id, name |-> contestant.name, tags |-> contestant.tags,
     show |-> contestant.show, seasonNum |-> contestant.seasonNum,
     couple |-> contestant.couple,
     stars |-> stars, starPoints |-> RARITY_BASE[stars]]

-----------------------------------------------------------------------------
(***************************************************************************)
(* 32-bit integer arithmetic of the draft generator.  A JavaScript number  *)
(* that holds an integer is the record [hi, lo] standing for               *)
(* hi * 65536 + lo with 0 <= lo < 65536; a 32-bit word has hi < 65536.     *)
(***************************************************************************)
RECURSIVE Pow2(_)
Pow2(k) == IF k = 0 THEN 1 ELSE 2 * Pow2(k - 1)

Half == Pow2(16)

Num(hi, lo) == [hi |-> hi, lo |-> lo]

\* Bitwise operators on the low n bits of two naturals.
RECURSIVE BitXor(_, _, _)
BitXor(x, y, n) ==
    IF n = 0 THEN 0
    ELSE ((x + y) % 2) + 2 * BitXor(x \div 2, y \div 2, n - 1)

RECURSIVE BitOr(_, _, _)
BitOr(x, y, n) ==
    IF n = 0 THEN 0
    ELSE (IF x % 2 = 1 \/ y % 2 = 1 THEN 1 ELSE 0)
         + 2 * BitOr(x \div 2, y \div 2, n - 1)

\* x | 0 : ToInt32 keeps the number modulo 2^32.
ToInt32(x) == Num(x.hi % Half, x.lo)

\* a ^ b
Xor32(a, b) == Num(BitXor(a.hi, b.hi, 16), BitXor(a.lo, b.lo, 16))

\* a | b
Or32(a, b) == Num(BitOr(a.hi, b.hi, 16), BitOr(a.lo, b.lo, 16))

\* a >>> k  for 0 < k < 16
Shr32(a, k) ==
    Num(a.hi \div Pow2(k),
        (a.lo \div Pow2(k)) + (a.hi % Pow2(k)) * Pow2(16 - k))

\* (a + b) | 0
Add32(a, b) ==
    Num((a.hi + b.hi + ((a.lo + b.lo) \div Half)) % Half, (a.lo + b.lo) % Half)

\* The exact product x * y of two naturals below 65536.
Mul16(x, y) ==
    LET p0 == x * (y % 256)
        p1 == x * (y \div 256)
        s == p0 + (p1 % 256) * 256
    IN  Num((p1 \div 256) + (s \div Half), s % Half)

\* Math.imul(a, b): the low 32 bits of the product.
Imul(a, b) ==
    LET low == Mul16(a.lo, b.lo)
        cross == Mul16(a.hi, b.lo).lo + Mul16(a.lo, b.hi).lo
    IN  Num((low.hi + cross) % Half, low.lo)

\* One call of the closure returned by mulberry32: from the captured seed to
\* the new captured seed and the numerator of the returned value / 2^32.
Mulberry32Draw(seed) ==
    LET s1 == Add32(ToInt32(seed), Num(27947, 31221))          \* 0x6D2B79F5
        t1 == Imul(Xor32(s1, Shr32(s1, 15)), Or32(Num(0, 1), s1))
        t2 == Xor32(Add32(t1, Imul(Xor32(t1, Shr32(t1, 7)), Or32(Num(0, 61), t1))),
                    t1)
    IN  [seed |-> s1, value |-> Xor32(t2, Shr32(t2, 14))]

\* mulberry32(seed): the closure, identified with the seed it captures.
mulberry32(seed) == seed

\* Math.floor(v * n) for v = u / 2^32, n a small natural: the product of the
\* 32-bit numerator and n is exact in a double.
FloorTimes(u, n) == (u.hi * n + ((u.lo * n) \div Half)) \div Half

-----------------------------------------------------------------------------
(***************************************************************************)
(* getDailySeed                                                            *)
(***************************************************************************)
IsLeapYear(y) == (y % 4 = 0 /\ y % 100 # 0) \/ y % 400 = 0

DaysInMonth(y, m) ==
    IF m = 2 THEN (IF IsLeapYear(y) THEN 29 ELSE 28)
    ELSE IF m \in {4, 6, 9, 11} THEN 30 ELSE 31

PreviousDay(d) ==
    IF d.day > 1 THEN [d EXCEPT !.day = d.day - 1]
    ELSE IF d.month > 1
    THEN [year |-> d.year, month |-> d.month - 1,
          day |-> DaysInMonth(d.year, d.month - 1)]
    ELSE [year |-> d.year - 1, month |-> 12, day |-> 31]

\* new Date("YYYY-MM-DD") is midnight UTC of that day; getFullYear, getMonth
\* and getDate read it in the client's local time, tz minutes east of UTC
\* (-24h < tz < 24h): west of UTC it is still the previous day.
LocalDate(date, tz) == IF tz < 0 THEN PreviousDay(date) ELSE date

multipliers == <<1, 7919, 104729>>

\* base * m for base below 2^31 and m below 2^31, without overflow.
TimesWide(base, m) ==
    LET bh == base \div Half
        bl == base % Half
        mh == m \div Half
        ml == m % Half
        low == Mul16(bl, ml)
    IN  Num(bh * mh * Half + bh * ml + bl * mh + low.hi, low.lo)

PlusWide(x, n) == Num(x.hi + ((x.lo + n) \div Half), (x.lo + n) % Half)

\* Faulty variant: the multiplier of game 1 is used for every game.
getDailySeedOneMultiplier(date, gameNumber, tz) ==
    LET d == LocalDate(date, tz)
        base == d.year * 10000 + d.month * 100 + d.day
    IN  PlusWide(TimesWide(base, multipliers[1]), gameNumber * 31337)

getDailySeed(date, gameNumber, tz) ==
    LET d == LocalDate(date, tz)
        base == d.year * 10000 + d.month * 100 + d.day
    IN  PlusWide(TimesWide(base, multipliers[gameNumber]), gameNumber * 31337)

-----------------------------------------------------------------------------
(***************************************************************************)
(* The draft generator.  The pool and the rounds are sequences: the array  *)
(* index k of the code is position k + 1.  An rng is the seed its closure  *)
(* captures; every operator that draws returns the rng it leaves behind.   *)
(***************************************************************************)
\* Faulty variant: the last round's row leaves out a hundredth.
RarityTableShortRow ==
    << <<30, 35, 25, 10>>, <<35, 35, 22, 8>>, <<40, 35, 18, 7>>,
       <<45, 32, 16, 7>>, <<50, 30, 14, 6>>, <<55, 28, 12, 5>>,
       <<65, 23, 9, 3>>, <<75, 18, 6, 1>>, <<85, 12, 2, 0>> >>

\* The probabilities, in hundredths.
RARITY_TABLE ==
    << <<30, 35, 25, 10>>, <<35, 35, 22, 8>>, <<40, 35, 18, 7>>,
       <<45, 32, 16, 7>>, <<50, 30, 14, 6>>, <<55, 28, 12, 5>>,
       <<65, 23, 9, 3>>, <<75, 18, 6, 1>>, <<85, 13, 2, 0>> >>

NUM_ROUNDS == 9

\* roll < cumulative, for roll = u / 2^32 and cumulative the running sum of
\* the row's doubles, cum hundredths in all.  For every prefix of every row
\* of RARITY_TABLE the double sum d and the exact sum cum / 100 have the same
\* ceiling of d * 2^32, so the comparison is that of 100 * u with cum * 2^32.
RollBelow(u, cum) == 100 * u.hi + ((100 * u.lo) \div Half) < cum * Half

\* Faulty variant: the roll is compared with each tier's own probability,
\* not with the running sum.
RECURSIVE StarFromOwnShare(_, _, _, _)
StarFromOwnShare(probs, u, star, cumulative) ==
    IF star >= 4 THEN 1
    ELSE IF RollBelow(u, probs[star + 1]) THEN star + 1
    ELSE StarFromOwnShare(probs, u, star + 1, cumulative)

\* The  for (star = 0; star < 4; star++)  loop of rollStarRating from star on.
RECURSIVE StarFrom(_, _, _, _)
StarFrom(probs, u, star, cumulative) ==
    IF star >= 4 THEN 1
    ELSE IF RollBelow(u, cumulative + probs[star + 1]) THEN star + 1
    ELSE StarFrom(probs, u, star + 1, cumulative + probs[star + 1])

rollStarRating(rng, roundIndex) ==
    LET probs == RARITY_TABLE[Min(roundIndex, Len(RARITY_TABLE) - 1) + 1]
        roll == Mulberry32Draw(rng)
    IN  [stars |-> StarFrom(probs, roll.value, 0, 0), rng |-> roll.seed]

\* Faulty variant: arr[i] = arr[j] alone, the old arr[i] is lost.
OverwriteSeq(arr, x, y) == [arr EXCEPT ![x] = arr[y]]

\* [arr[i], arr[j]] = [arr[j], arr[i]]
SwapSeq(arr, x, y) == [arr EXCEPT ![x] = arr[y], ![y] = arr[x]]

\* The loop of seededShuffle from index i down to 1: the array and the rng as
\* the loop leaves them, and the j of every iteration in order.
RECURSIVE ShuffleFrom(_, _, _)
ShuffleFrom(arr, rng, i) ==
    IF i <= 0 THEN [arr |-> arr, rng |-> rng, js |-> << >>]
    ELSE LET roll == Mulberry32Draw(rng)
             j == FloorTimes(roll.value, i + 1)
             rest == ShuffleFrom(SwapSeq(arr, i + 1, j + 1), roll.seed, i - 1)
         IN  [rest EXCEPT !.js = <<j>> \o @]

seededShuffle(arr, rng) == ShuffleFrom(arr, rng, Len(arr) - 1)

\* Faulty variant: const pool = allContestants, so the shuffle reorders the
\* caller's array.
CallerArrayAliased(allContestants, shuffled) == shuffled

\* const pool = [...allContestants]: the shuffle works on a fresh array, so
\* the array the caller passed in keeps its order.
CallerArrayAfter(allContestants, shuffled) == allContestants

\* Faulty variant: the pool index is read but never advanced.
NextPoolIndexStuck(poolIndex) == poolIndex

\* poolIndex++
NextPoolIndex(poolIndex) == poolIndex + 1

\* Faulty variant: a round left without options is not pushed.
PushRoundNonEmpty(rounds, options) ==
    IF options = << >> THEN rounds ELSE Append(rounds, options)

\* rounds.push(options)
PushRound(rounds, options) == Append(rounds, options)

\* The pick loop of one round, from pick on.
RECURSIVE PickFrom(_, _, _, _, _, _)
PickFrom(pool, rng, poolIndex, round, pick, options) ==
    IF pick >= 3 \/ poolIndex >= Len(pool)
    THEN [options |-> options, rng |-> rng, poolIndex |-> poolIndex]
    ELSE LET contestant == pool[poolIndex + 1]
             rolled == rollStarRating(rng, round)
         IN  PickFrom(pool, rolled.rng, NextPoolIndex(poolIndex), round, pick + 1,
                      Append(options, DraftCard(contestant, rolled.stars)))

\* The round loop, from round on.
RECURSIVE RoundsFrom(_, _, _, _, _)
RoundsFrom(pool, rng, poolIndex, round, rounds) ==
    IF round >= NUM_ROUNDS THEN rounds
    ELSE LET picked == PickFrom(pool, rng, poolIndex, round, 0, << >>)
         IN  RoundsFrom(pool, picked.rng, picked.poolIndex, round + 1,
                        PushRound(rounds, picked.options))

\* The returned rounds, and the caller's array as the call leaves it.
\* The shuffle is finished before the round loop starts.
generateAllRounds(allContestants, seed) ==
    CHOOSE r \in {[rounds |-> RoundsFrom(shuffled.arr, shuffled.rng, 0, 0, << >>),
                   allContestants |-> CallerArrayAfter(allContestants, shuffled.arr)] :
                     shuffled \in {seededShuffle(allContestants, mulberry32(seed))}} :
        TRUE

-----------------------------------------------------------------------------
(***************************************************************************)
(* Bounds and inputs of the specifications.                                *)
(***************************************************************************)
MaxPlaced == 3          \* cards on a partially filled input board
MaxCalls == 2           \* calculateScore calls on one board
NumHands == 1           \* nine-card hands tried, beside the hand that earns nothing
NumPlacements == 2      \* placements of a hand tried
MaxCurrent == 25        \* largest currentScore passed with a refused card list
MaxShift == 2           \* board layouts tried for a partly drafted game
MaxAliasPool == 4       \* largest pool whose cards the caller changes
MaxShufflePool == 8     \* longest array handed to seededShuffle
MaxRolls == 1           \* rollStarRating calls on one closure
MaxPool == 28           \* largest contestant pool
MaxDraftCalls == 2      \* generateAllRounds calls on one pool
MaxYear == 2026         \* dates run over the three years up to MaxYear

Slots == 0 .. (NUM_SLOTS - 1)

EmptyBoard == [s \in Slots |-> NULL]

\* The cards placed on the partially filled boards: they realise every
\* pairwise relation (combo, country only, season only, couple, none).
ScoreCards == {DraftCard(Contestant(k), 1 + (k % 4)) : k \in {1, 2, 3, 4, 7}}

CardsOn(b) == {b[s] : s \in {t \in Slots : b[t] # NULL}}

\* Every board holding at most n distinct cards of ScoreCards.
RECURSIVE BoardsUpTo(_)
BoardsUpTo(n) ==
    IF n = 0 THEN {EmptyBoard}
    ELSE LET prev == BoardsUpTo(n - 1)
         IN  prev \cup
             UNION {{[b EXCEPT ![s] = c] :
                        s \in {t \in Slots : b[t] = NULL},
                        c \in ScoreCards \ CardsOn(b)} : b \in prev}

\* Nine drafted cards: hand h holds contestants 3h-2 .. 3h+6.
Hand(h) ==
    [k \in 1 .. 9 |-> DraftCard(Contestant(3 * (h - 1) + k), 1 + ((h + k) % 4))]

\* Nine cards that earn nothing anywhere: one star, no tags, no two alike
\* in show or season, no couples.
ZeroHand ==
    [k \in 1 .. 9 |->
        [id |-> 100 + k, name |-> NAMES[k], tags |-> {}, show |-> NAMES[k],
         seasonNum |-> 100 + k, couple |-> "", stars |-> 1, starPoints |-> 0]]

Hands == {Hand(h) : h \in 1 .. NumHands}

\* Placement p puts card number ((s + p - 1) mod 9) + 1 of the hand on slot s.
Place(hand, p) == [s \in Slots |-> hand[((s + p - 1) % 9) + 1]]

FullBoards ==
    {Place(hand, p) : hand \in Hands, p \in 1 .. NumPlacements}
        \cup {Place(ZeroHand, 1)}

\* Card lists calculateOptimal must refuse: none, too few, too many.
ShortLists ==
    {SubSeq(Hand(1), 1, n) : n \in {0, 3, 8}}
        \cup {Hand(1) \o <<DraftCard(Contestant(10), 2)>>}

\* The first n cards of the first hand, as state.drafted holds them after n
\* rounds.
Drafted(n) == SubSeq(Hand(1), 1, n)

\* A board holding the drafted cards, card k on slot (k - 1 + p) mod 9.
PlaceFrom(cards, p) ==
    [s \in Slots |->
        IF \E k \in 1 .. Len(cards) : (k - 1 + p) % 9 = s
        THEN cards[CHOOSE k \in 1 .. Len(cards) : (k - 1 + p) % 9 = s]
        ELSE NULL]

Pool(p) == [k \in 1 .. p |-> Contestant(k)]

\* A pool that lists contestant 1 twice.
PoolWithRepeat == <<Contestant(1), Contestant(2), Contestant(1), Contestant(3)>>

Date(y, m, d) == [year |-> y, month |-> m, day |-> d]

ValidDates ==
    {Date(y, m, d) : y \in (MaxYear - 2) .. MaxYear, m \in 1 .. 12, d \in 1 .. 31}
        \cap {dt \in [year : (MaxYear - 2) .. MaxYear, month : 1 .. 12, day : 1 .. 31] :
                dt.day <= DaysInMonth(dt.year, dt.month)}

\* The clients' UTC offsets in minutes: Los Angeles, London, Tokyo.
TimeZones == {0 - 480, 0, 540}

DraftSeeds ==
    {getDailySeed(Date(MaxYear, 11, 4), g, 0) : g \in 1 .. 3}
        \cup {getDailySeed(Date(MaxYear - 2, 2, 29), g, 0) : g \in 1 .. 3}

ScoreIdle == board = NULL /\ score = NULL /\ prevScore = NULL /\ calls = 0

OptIdle ==
    /\ optPc = "off" /\ optCards = NULL /\ optCurrent = 0 /\ optEvals = 0
    /\ optResult = NULL

RngIdle == callerRng = Num(0, 0) /\ shuffleOut = NULL /\ rollOut = << >>

DraftIdle ==
    /\ contestants = << >> /\ seedArg = Num(0, 0) /\ draftOut = << >>
    /\ RngIdle

SeedIdle == dateStr = NULL /\ gameIndex = 0 /\ clientSeed = NULL

PermIdle == permSt = NULL /\ permSeen = NULL

\* undefined where a return value may stand: nothing was returned.
NO_RETURN == [op |-> "none"]

DayIdle ==
    /\ today = NULL /\ progress = NULL /\ stats = NULL
    /\ returned = NO_RETURN

\* null where a slot index may stand (state.selectedIndex).
NO_SELECTION == 0 - 1

\* The state object as the module creates it (game.js lines 10-21), but for
\* board and score.
GameIdle ==
    /\ phase = "idle" /\ stateRound = 0 /\ drafted = << >>
    /\ selectedIndex = NO_SELECTION /\ allRounds = << >>
    /\ stateDate = NULL /\ stateGameNumber = 0 /\ savedState = NULL
    /\ draftMemo = << >>

-----------------------------------------------------------------------------
(***************************************************************************)
(* SpecScore: calculateScore applied to input boards.                      *)
(***************************************************************************)
InitScore ==
    /\ board \in BoardsUpTo(MaxPlaced) \cup FullBoards
    /\ score = NULL /\ prevScore = NULL /\ calls = 0
    /\ OptIdle /\ DraftIdle /\ SeedIdle /\ GameIdle /\ PermIdle /\ DayIdle

\* recalcScore: state.score = Scoring.calculateScore(state.board)
CalculateScoreCall ==
    /\ calls < MaxCalls
    /\ score' = calculateScore(board)
    /\ prevScore' = score
    /\ calls' = calls + 1
    /\ UNCHANGED <<board, optVars, draftVars, seedVars, gameVars, permVars, dayVars>>

NextScore == CalculateScoreCall

SpecScore == InitScore /\ [][NextScore]_vars

(***************************************************************************)
(* SpecOpt: one call calculateOptimal(cards, currentScore), the caller     *)
(* passing the drafted cards and the total of its board.  The call is      *)
(* synchronous: it is one step.                                            *)
(***************************************************************************)
InitOpt ==
    /\ \/ /\ (optCards \in ShortLists \/ optCards = NULL)
          /\ board = EmptyBoard
          /\ optCurrent \in 0 .. MaxCurrent
       \/ /\ optCards = ZeroHand
          /\ board = Place(optCards, 1)
          /\ optCurrent = calculateScore(board).total
       \/ /\ optCards \in Hands
          /\ \E p \in 1 .. NumPlacements : board = Place(optCards, p)
          /\ optCurrent = calculateScore(board).total
    /\ score = NULL /\ prevScore = NULL /\ calls = 0
    /\ optPc = "idle" /\ optEvals = 0 /\ optResult = NULL
    /\ DraftIdle /\ SeedIdle /\ GameIdle /\ PermIdle /\ DayIdle

NextOpt == CalculateOptimalCall

SpecOpt == InitOpt /\ [][NextOpt]_vars

(***************************************************************************)
(* SpecFrame: a game with n cards drafted and placed; the controller       *)
(* rescores the board and the completion view asks for the optimum.        *)
(***************************************************************************)
\* The numbers of cards drafted so far.  One card is left out: a
\* one-element sequence cannot be compared with the one-field record NULL.
FrameRounds == {0} \cup 2 .. 9

InitFrame ==
    /\ \E n \in FrameRounds :
          /\ optCards = Drafted(n)
          /\ \E p \in 0 .. (IF n = 9 THEN 0 ELSE MaxShift) :
                 board = PlaceFrom(optCards, p)
    /\ score = NULL /\ prevScore = NULL /\ calls = 0
    /\ optPc = "idle" /\ optCurrent = 0 /\ optEvals = 0 /\ optResult = NULL
    /\ DraftIdle /\ SeedIdle /\ GameIdle /\ PermIdle /\ DayIdle

NextFrame == CalculateScoreCall \/ RenderCompletion

SpecFrame == InitFrame /\ [][NextFrame]_vars

(***************************************************************************)
(* SpecDraft: generateAllRounds called on a pool, once and again.          *)
(***************************************************************************)
InitDraft ==
    /\ contestants \in {Pool(p) : p \in 0 .. MaxPool} \cup {PoolWithRepeat}
    /\ seedArg \in DraftSeeds
    /\ draftOut = << >>
    /\ RngIdle
    /\ ScoreIdle /\ OptIdle /\ SeedIdle /\ GameIdle /\ PermIdle /\ DayIdle

\* state.allRounds = Draft.generateAllRounds(contestants, seed)
GenerateAllRoundsCall ==
    /\ Len(draftOut) < MaxDraftCalls
    /\ LET r == generateAllRounds(contestants, seedArg)
       IN  /\ draftOut' = Append(draftOut, r.rounds)
           /\ contestants' = r.allContestants
    /\ UNCHANGED <<seedArg, callerRng, shuffleOut, rollOut, scoreVars, optVars,
                   seedVars, gameVars, permVars, dayVars>>

NextDraft == GenerateAllRoundsCall

SpecDraft == InitDraft /\ [][NextDraft]_vars

(***************************************************************************)
(* SpecAlias: generateAllRounds called on a pool of distinct records, and  *)
(* the caller then changing the cards it was handed.                       *)
(***************************************************************************)
\* The spread { ...contestant, stars, starPoints } copies the value of every
\* own property of contestant.  The value of tags is a reference to the
\* record's array, so the card made from a record holds that same array.
SharesTagsArray(card, record) == card.id = record.id

\* arr.push(t) on a tags array, seen through one holder of the array.
TagsPushed(holder, t) == [holder EXCEPT !.tags = @ \cup {t}]

InitAlias ==
    /\ contestants \in {Pool(p) : p \in 2 .. MaxAliasPool}
    /\ seedArg \in DraftSeeds
    /\ draftOut = << >>
    /\ RngIdle
    /\ ScoreIdle /\ OptIdle /\ SeedIdle /\ GameIdle /\ PermIdle /\ DayIdle

\* The caller: allRounds[r][c].tags.push(t).  Every holder of the array
\* sees the new element: the pool record the card was spread from and the
\* cards of every call spread from that record.
PushCardTag(k, r, c, t) ==
    /\ k \in DOMAIN draftOut
    /\ r \in DOMAIN draftOut[k]
    /\ c \in DOMAIN draftOut[k][r]
    /\ t \notin draftOut[k][r][c].tags
    /\ LET card == draftOut[k][r][c]
       IN  /\ draftOut' =
                 [k2 \in DOMAIN draftOut |->
                    [r2 \in DOMAIN draftOut[k2] |->
                       [c2 \in DOMAIN draftOut[k2][r2] |->
                          IF SharesTagsArray(draftOut[k2][r2][c2], card)
                          THEN TagsPushed(draftOut[k2][r2][c2], t)
                          ELSE draftOut[k2][r2][c2]]]]
           /\ contestants' =
                 [i \in DOMAIN contestants |->
                    IF SharesTagsArray(card, contestants[i])
                    THEN TagsPushed(contestants[i], t)
                    ELSE contestants[i]]
    /\ UNCHANGED <<seedArg, callerRng, shuffleOut, rollOut, scoreVars, optVars,
                   seedVars, gameVars, permVars, dayVars>>

\* The caller: allRounds[r][c].stars = 4 on the first card of a round.  stars
\* is an own property of the card alone.
SetCardStars(k, r) ==
    /\ k \in DOMAIN draftOut
    /\ r \in DOMAIN draftOut[k]
    /\ draftOut[k][r] # << >>
    /\ draftOut[k][r][1].stars # 4
    /\ draftOut' = [draftOut EXCEPT ![k][r][1].stars = 4]
    /\ UNCHANGED <<contestants, seedArg, callerRng, shuffleOut, rollOut, scoreVars,
                   optVars, seedVars, gameVars, permVars, dayVars>>

NextAlias ==
    \/ GenerateAllRoundsCall
    \/ \E k \in 1 .. MaxDraftCalls, c \in 1 .. 3 : PushCardTag(k, 1, c, "starred")
    \/ \E k \in 1 .. MaxDraftCalls : SetCardStars(k, 1)

SpecAlias == InitAlias /\ [][NextAlias]_vars

(***************************************************************************)
(* SpecRng: a caller holding one mulberry32 closure shuffles an array with *)
(* it and rolls star ratings with it.                                      *)
(***************************************************************************)
InitRng ==
    /\ contestants \in {Pool(p) : p \in 0 .. MaxShufflePool} \cup {PoolWithRepeat}
    /\ seedArg \in DraftSeeds
    /\ draftOut = << >>
    /\ callerRng = mulberry32(seedArg)
    /\ shuffleOut = NULL
    /\ rollOut = << >>
    /\ ScoreIdle /\ OptIdle /\ SeedIdle /\ GameIdle /\ PermIdle /\ DayIdle

\* seededShuffle(arr, rng): arr is shuffled in place and the closure has
\* moved on.
SeededShuffleCall ==
    /\ shuffleOut = NULL
    /\ LET r == seededShuffle(contestants, callerRng)
       IN  /\ shuffleOut' = [input |-> contestants, before |-> callerRng,
                             arr |-> r.arr, rng |-> r.rng, js |-> r.js]
           /\ contestants' = r.arr
           /\ callerRng' = r.rng
    /\ UNCHANGED <<seedArg, draftOut, rollOut, scoreVars, optVars, seedVars, gameVars, permVars, dayVars>>

\* rollStarRating(rng, roundIndex)
RollStarRatingCall(roundIndex) ==
    /\ Len(rollOut) < MaxRolls
    /\ LET r == rollStarRating(callerRng, roundIndex)
       IN  /\ rollOut' = Append(rollOut, [round |-> roundIndex,
                                          before |-> callerRng,
                                          stars |-> r.stars, rng |-> r.rng])
           /\ callerRng' = r.rng
    /\ UNCHANGED <<contestants, seedArg, draftOut, shuffleOut, scoreVars,
                   optVars, seedVars, gameVars, permVars, dayVars>>

NextRng ==
    \/ SeededShuffleCall
    \/ \E roundIndex \in 0 .. NUM_ROUNDS : RollStarRatingCall(roundIndex)

SpecRng == InitRng /\ [][NextRng]_vars

(***************************************************************************)
(* SpecSeed: the clients of one day's game each derive the seed.           *)
(***************************************************************************)
InitSeed ==
    /\ dateStr \in ValidDates
    /\ gameIndex \in 1 .. 3
    /\ clientSeed = [tz \in TimeZones |-> NULL]
    /\ ScoreIdle /\ OptIdle /\ DraftIdle /\ GameIdle /\ PermIdle /\ DayIdle

\* const seed = Draft.getDailySeed(date, gameNumber)  on the client at tz
GetDailySeedCall(tz) ==
    /\ clientSeed[tz] = NULL
    /\ clientSeed' = [clientSeed EXCEPT ![tz] = getDailySeed(dateStr, gameIndex, tz)]
    /\ UNCHANGED <<dateStr, gameIndex, scoreVars, optVars, draftVars, gameVars, permVars, dayVars>>

NextSeed == \E tz \in TimeZones : GetDailySeedCall(tz)

SpecSeed == InitSeed /\ [][NextSeed]_vars

-----------------------------------------------------------------------------
(***************************************************************************)
(* SpecGame: the controller of src/js/game.js driven by the five handlers  *)
(* the interface calls while a game is played.  A drafted card is a fresh  *)
(* object; the field ref stands for its identity, so that two cards with   *)
(* equal fields are still two cards.                                       *)
(***************************************************************************)
\* The object { ...undefined } spreads to: it has no field at all.  Reading
\* show, seasonNum, couple or stars of it yields undefined.
EMPTY_OBJECT ==
    [id |-> NO_SELECTION, name |-> "undefined", tags |-> {},
     show |-> "undefined", seasonNum |-> NO_SELECTION, couple |-> "",
     stars |-> 0, starPoints |-> 0]

HasNoFields(card) == card.name = "undefined"

\* { ...options[optionIndex] }
Spread(options, optionIndex, ref) ==
    LET src == IF optionIndex + 1 \in DOMAIN options
               THEN options[optionIndex + 1] ELSE EMPTY_OBJECT
    IN  [id |-> src.id, name |-> src.name, tags |-> src.tags,
         show |-> src.show, seasonNum |-> src.seasonNum,
         couple |-> src.couple, stars |-> src.stars,
         starPoints |-> src.starPoints, ref |-> ref]

\* contestant.tags.includes(tag) on an object without tags is a TypeError.
ScoreThrows(b) ==
    \E s \in Slots : b[s] # NULL /\ HasNoFields(b[s]) /\ ~isWildSlot(s)

\* state.board.indexOf(null)
IndexOfNull(b) ==
    IF \E s \in Slots : b[s] = NULL
    THEN CHOOSE s \in Slots : b[s] = NULL /\ \A t \in Slots : b[t] = NULL => s <= t
    ELSE 0 - 1

\* Faulty variant: the card on the target cell is not moved away.
DisplaceDropped(b, cellIndex) == b

\* If the target cell is occupied, its card goes to the first empty cell.
Displace(b, cellIndex) ==
    IF b[cellIndex] # NULL /\ IndexOfNull(b) # 0 - 1
    THEN [b EXCEPT ![IndexOfNull(b)] = b[cellIndex]]
    ELSE b

\* What JSON.stringify keeps of a card: its fields, not its identity.
Stored(card) ==
    IF card = NULL THEN NULL
    ELSE [id |-> card.id, name |-> card.name, tags |-> card.tags,
          show |-> card.show, seasonNum |-> card.seasonNum,
          couple |-> card.couple, stars |-> card.stars,
          starPoints |-> card.starPoints]

\* The object saveCurrentState hands to Storage.saveGameState.
Snapshot ==
    [date |-> stateDate, gameNumber |-> stateGameNumber, round |-> stateRound,
     allRounds |-> allRounds,
     board |-> [s \in Slots |-> Stored(board[s])],
     drafted |-> [k \in DOMAIN drafted |-> Stored(drafted[k])],
     phase |-> phase]

\* recalcScore(); saveCurrentState(); notifyUI(): the tail of a handler.  An
\* exception thrown by calculateScore ends the handler before the save.
RecalcAndSave ==
    IF ScoreThrows(board')
    THEN score' = score /\ savedState' = savedState
    ELSE score' = calculateScore(board') /\ savedState' = Snapshot'

MaxGamePool == 27       \* contestants of the largest database played with
ShortGamePool == 7      \* contestants of a database too small for 9 rounds

\* The games played: database, game number, date.
GameSetups ==
    <<[contestants |-> Pool(MaxGamePool), gameNumber |-> 1,
       date |-> Date(MaxYear, 11, 4)],
      [contestants |-> Pool(ShortGamePool), gameNumber |-> 2,
       date |-> Date(MaxYear, 11, 4)]>>

\* Draft.generateAllRounds(contestants, Draft.getDailySeed(date, gameNumber))
\* for setup k.
DraftOf(k) ==
    CHOOSE r \in {generateAllRounds(c, seed) :
                    c \in {GameSetups[k].contestants},
                    seed \in {getDailySeed(GameSetups[k].date,
                                           GameSetups[k].gameNumber, 0)}} : TRUE

GameDraft == <<DraftOf(1), DraftOf(2)>>

\* The arguments the handlers are called with: in range and out of range.
DraftToCellInputs == {<<0, 4>>, <<3, 4>>, <<0, 9>>}
DraftContestantInputs == {0}
SwapInputs == {<<0, 4>>, <<4, 4>>, <<4, 9>>}
SelectInputs == {0, 4}

\* generateAllRounds is a function of its arguments: the model evaluates it
\* once per setup and initGame looks the result up.
InitGame ==
    /\ board = EmptyBoard /\ score = NULL /\ prevScore = NULL /\ calls = 0
    /\ phase = "idle" /\ stateRound = 0 /\ drafted = << >>
    /\ selectedIndex = NO_SELECTION /\ allRounds = << >>
    /\ stateDate = NULL /\ stateGameNumber = 0 /\ savedState = NULL
    /\ draftMemo = GameDraft
    /\ OptIdle /\ DraftIdle /\ SeedIdle /\ PermIdle /\ DayIdle

\* initGame(contestants, gameNumber, date) of setup k, the k-th entry of
\* setups; draftMemo[k] is what generateAllRounds returns for it.
InitGameOf(setups, k) ==
    /\ contestants' = draftMemo[k].allContestants
    /\ stateDate' = setups[k].date
    /\ stateGameNumber' = setups[k].gameNumber
    /\ stateRound' = 0
    /\ board' = EmptyBoard
    /\ drafted' = << >>
    /\ selectedIndex' = NO_SELECTION
    /\ phase' = "drafting"
    /\ allRounds' = draftMemo[k].rounds
    /\ RecalcAndSave
    /\ returned' = NO_RETURN
    /\ UNCHANGED <<draftMemo, prevScore, calls, optVars, seedArg, draftOut,
                   callerRng, shuffleOut, rollOut, seedVars, permVars, storeVars>>

initGame(k) == InitGameOf(GameSetups, k)

draftToCell(optionIndex, cellIndex) ==
    /\ phase = "drafting" /\ stateRound < NUM_ROUNDS
    /\ stateRound + 1 \in DOMAIN allRounds
    /\ optionIndex >= 0 /\ optionIndex < 3
    /\ cellIndex >= 0 /\ cellIndex < 9
    /\ LET options == allRounds[stateRound + 1]
           contestant == Spread(options, optionIndex, stateRound + 1)
       IN  /\ drafted' = Append(drafted, contestant)
           /\ board' = [Displace(board, cellIndex) EXCEPT ![cellIndex] = contestant]
    /\ selectedIndex' = NO_SELECTION
    /\ stateRound' = stateRound + 1
    /\ phase' = IF stateRound + 1 >= NUM_ROUNDS THEN "optimizing" ELSE phase
    /\ UNCHANGED <<allRounds, stateDate, stateGameNumber, draftMemo>>
    /\ RecalcAndSave
    /\ returned' = NO_RETURN
    /\ UNCHANGED <<prevScore, calls, optVars, draftVars, seedVars, permVars, storeVars>>

draftContestant(optionIndex) ==
    /\ IndexOfNull(board) # 0 - 1
    /\ draftToCell(optionIndex, IndexOfNull(board))

\* swapCells but for state.selectedIndex, which its callers differ on.
SwapCellsFrom(i1, i2) ==
    /\ i1 # i2 /\ i1 >= 0 /\ i1 < 9 /\ i2 >= 0 /\ i2 < 9
    /\ board' = Swap(board, i1, i2)
    /\ UNCHANGED <<phase, stateRound, drafted, allRounds, stateDate,
                   stateGameNumber, draftMemo>>
    /\ RecalcAndSave
    /\ UNCHANGED <<prevScore, calls, optVars, draftVars, seedVars, permVars, storeVars>>

swapCells(i1, i2) ==
    /\ SwapCellsFrom(i1, i2)
    /\ UNCHANGED selectedIndex
    /\ returned' = NO_RETURN

selectCell(index) ==
    /\ phase \in {"drafting", "optimizing"}
    /\ returned' = NO_RETURN
    /\ IF selectedIndex = NO_SELECTION
       THEN /\ index \in Slots /\ board[index] # NULL
            /\ selectedIndex' = index
            /\ UNCHANGED <<phase, stateRound, drafted, allRounds, stateDate,
                           stateGameNumber, savedState, draftMemo, scoreVars,
                           optVars, draftVars, seedVars, permVars, storeVars>>
       ELSE IF selectedIndex = index
       THEN /\ selectedIndex' = NO_SELECTION
            /\ UNCHANGED <<phase, stateRound, drafted, allRounds, stateDate,
                           stateGameNumber, savedState, draftMemo, scoreVars,
                           optVars, draftVars, seedVars, permVars, storeVars>>
       ELSE /\ selectedIndex' = NO_SELECTION
            /\ IF index >= 0 /\ index < 9
               THEN SwapCellsFrom(selectedIndex, index)
               ELSE UNCHANGED <<phase, stateRound, drafted, allRounds,
                                stateDate, stateGameNumber, savedState,
                                draftMemo, scoreVars, optVars, draftVars,
                                seedVars, permVars, storeVars>>

NextGame ==
    \/ \E k \in DOMAIN GameSetups : initGame(k)
    \/ \E p \in DraftToCellInputs : draftToCell(p[1], p[2])
    \/ \E o \in DraftContestantInputs : draftContestant(o)
    \/ \E p \in SwapInputs : swapCells(p[1], p[2])
    \/ \E i \in SelectInputs : selectCell(i)

SpecGame == InitGame /\ [][NextGame]_vars

-----------------------------------------------------------------------------
(***************************************************************************)
(* SpecPerm: the while loop of calculateOptimal on nine cards, followed    *)
(* stretch by stretch, with a record of the arrangements it scores.        *)
(***************************************************************************)
StretchLen == 4096      \* loop iterations per stretch

\* A number that tells apart the arrangements of nine cards whose ids are
\* consecutive: the ids modulo 9 on slots 0..n-1, read as digits.
RECURSIVE ArrangementCode(_, _)
ArrangementCode(b, n) ==
    IF n = 0 THEN 0 ELSE 9 * ArrangementCode(b, n - 1) + (b[n - 1].id % 9)

\* The block of an arrangement: the cards on its last two slots.
BlockKey(b) == 9 * (b[8].id % 9) + (b[7].id % 9)

\* The arrangements scored during some iterations, in order: a sequence of
\* segments, each the codes of consecutive arrangements of one block.
Scored(before, after) ==
    IF after.evals > before.evals
    THEN <<[key |-> BlockKey(after.board),
            codes |-> {ArrangementCode(after.board, 9)}]>>
    ELSE << >>

JoinSegs(a, b) ==
    IF a = << >> THEN b
    ELSE IF b = << >> THEN a
    ELSE IF a[Len(a)].key = b[1].key
    THEN SubSeq(a, 1, Len(a) - 1)
            \o <<[key |-> b[1].key, codes |-> a[Len(a)].codes \cup b[1].codes]>>
            \o Tail(b)
    ELSE a \o b

\* HeapRun(run.st, n), and the arrangements scored on the way appended to
\* run.segs.
RECURSIVE HeapRunSeen(_, _)
RECURSIVE HeapRunSeenOn(_, _)
HeapRunSeen(run, n) ==
    IF n = 0 \/ run.st.i >= 9 THEN run
    ELSE IF n = 1
    THEN CHOOSE r \in {[st |-> after,
                        segs |-> JoinSegs(run.segs, Scored(run.st, after))] :
                          after \in {HeapStep(run.st)}} : TRUE
    ELSE HeapRunSeenOn(HeapRunSeen(run, n \div 2), n - (n \div 2))

HeapRunSeenOn(first, n) ==
    [HeapRunSeen([first EXCEPT !.segs = << >>], n)
        EXCEPT !.segs = JoinSegs(first.segs, @)]

\* The record of the arrangements scored so far, after the segments segs:
\* done holds the blocks left behind, key and seen the block being scored
\* and its arrangements, distinct the number of arrangements that had not
\* been scored before (in a block not left before, and not in seen).
RECURSIVE Recorded(_, _)
Recorded(rec, segs) ==
    IF segs = << >> THEN rec
    ELSE LET seg == Head(segs)
         IN  Recorded(
                IF seg.key = rec.key
                THEN [rec EXCEPT !.seen = @ \cup seg.codes,
                                 !.distinct = @ + Cardinality(seg.codes \ rec.seen)]
                ELSE [done |-> rec.done \cup {rec.key},
                      key |-> seg.key,
                      seen |-> seg.codes,
                      distinct |-> rec.distinct
                          + (IF seg.key \in rec.done \cup {rec.key} THEN 0
                             ELSE Cardinality(seg.codes))],
                Tail(segs))

InitPerm ==
    /\ permSt = HeapStart(Hand(1))
    /\ permSeen = [done |-> {}, key |-> BlockKey(permSt.board),
                   seen |-> {ArrangementCode(permSt.board, 9)}, distinct |-> 1]
    /\ board = EmptyBoard /\ score = NULL /\ prevScore = NULL /\ calls = 0
    /\ OptIdle /\ DraftIdle /\ SeedIdle /\ GameIdle /\ DayIdle

\* The next StretchLen iterations of  while (i < 9).
PermStretch ==
    /\ permSt.i < 9
    /\ \E r \in {HeapRunSeen([st |-> permSt, segs |-> << >>], StretchLen)} :
           /\ permSt' = r.st
           /\ permSeen' = Recorded(permSeen, r.segs)
    /\ UNCHANGED <<scoreVars, optVars, draftVars, seedVars, gameVars, dayVars>>

NextPerm == PermStretch

SpecPerm == InitPerm /\ [][NextPerm]_vars

-----------------------------------------------------------------------------
(***************************************************************************)
(* Properties.                                                             *)
(***************************************************************************)
\* All cards of a list of rounds, in draft order.
RECURSIVE Flatten(_)
Flatten(rounds) ==
    IF rounds = << >> THEN << >> ELSE Head(rounds) \o Flatten(Tail(rounds))

DistinctIds(cards) ==
    \A i, j \in DOMAIN cards : i # j => cards[i].id # cards[j].id

\* The card is a pool entry with a star rating and its points added.
FromPool(card, pool) ==
    /\ card.stars \in 1 .. 4
    /\ \E i \in DOMAIN pool : card = DraftCard(pool[i], card.stars)

C2_NoDuplicateDrafts ==
    \A k \in DOMAIN draftOut :
        DistinctIds(contestants) => DistinctIds(Flatten(draftOut[k]))

C2_Witness ==
    /\ Len(draftOut) >= 1
    /\ DistinctIds(contestants)
    /\ Len(Flatten(draftOut[1])) = 27

\* C7: with a pool of p < 27 characters generateAllRounds returns 9 rounds,
\* round r holding min(3, max(0, p - 3r)) cards, every card made from a pool
\* entry, p cards in all.
C7_ShortPoolDegrades ==
    \A k \in DOMAIN draftOut :
        LET p == Len(contestants)
            rounds == draftOut[k]
        IN  p < 27 =>
                /\ Len(rounds) = 9
                /\ \A r \in 0 .. 8 : Len(rounds[r + 1]) = Min(3, Max(0, p - 3 * r))
                /\ \A r \in 1 .. 9 : \A c \in 1 .. Len(rounds[r]) :
                       FromPool(rounds[r][c], contestants)
                /\ Len(Flatten(rounds)) = p

C7_Witness ==
    /\ Len(draftOut) >= 1
    /\ Len(contestants) = 7
    /\ Len(draftOut[1][3]) = 1
    /\ draftOut[1][4] = << >>

\* C8 as claimed: every seed getDailySeed returns fits in 32 bits (it is at
\* most 2^32 - 1).
C8_SeedFitsIn32Bits ==
    \A tz \in TimeZones :
        clientSeed[tz] # NULL => clientSeed[tz].hi < Half

\* C8: the seed fits in 32 bits for game 1; for games 2 and 3 it exceeds
\* 2^32 - 1 and stays below 2^44, so it is exact as a double.
C8_SeedRange ==
    \A tz \in TimeZones :
        clientSeed[tz] # NULL =>
            /\ clientSeed[tz].lo \in 0 .. (Half - 1)
            /\ gameIndex = 1 => clientSeed[tz].hi < Half
            /\ gameIndex \in {2, 3} =>
                   clientSeed[tz].hi >= Half /\ clientSeed[tz].hi < Pow2(28)

C8_Witness ==
    \E tz \in TimeZones :
        clientSeed[tz] # NULL /\ gameIndex = 3 /\ clientSeed[tz].hi >= Half

\* C9: all clients derive the same seed from the same date string and game
\* number, whatever their time zone.
C9_SameSeedEverywhere ==
    \A t1, t2 \in TimeZones :
        (clientSeed[t1] # NULL /\ clientSeed[t2] # NULL)
            => clientSeed[t1] = clientSeed[t2]

\* The points cell i records for its neighbour j, 0 when it records none.
RECURSIVE ConnectionFrom(_, _, _)
ConnectionFrom(cell, j, k) ==
    IF k = 0 THEN 0
    ELSE IF cell.connections[k].neighborIndex = j THEN cell.connections[k].points
    ELSE ConnectionFrom(cell, j, k - 1)

ConnPoints(sc, i, j) ==
    ConnectionFrom(sc.cellScores[i], j, Len(sc.cellScores[i].connections))

\* C5: for every edge (i, j) of the topology, cell i receives from neighbour j
\* the connection points cell j receives from neighbour i.
C5_ConnectionSymmetry ==
    score # NULL =>
        \A e \in 1 .. Len(EDGES) :
            ConnPoints(score, EDGES[e][1], EDGES[e][2])
                = ConnPoints(score, EDGES[e][2], EDGES[e][1])

\* Cat names Dan as couple, Dan names nobody: a one-sided couple on an edge.
C5_Witness ==
    /\ score # NULL
    /\ \E e \in 1 .. Len(EDGES) :
          /\ board[EDGES[e][1]] # NULL /\ board[EDGES[e][2]] # NULL
          /\ board[EDGES[e][1]].name = "Dan" /\ board[EDGES[e][2]].name = "Cat"
          /\ ConnPoints(score, EDGES[e][1], EDGES[e][2]) = COUPLE_BONUS_PTS

C3_OptimalAtLeastCurrent ==
    (optPc = "done" /\ optCards # NULL /\ Len(optCards) = 9)
        => /\ optCurrent = calculateScore(board).total
           /\ optResult.optimalScore >= optCurrent

C3_Witness ==
    /\ optPc = "done" /\ optCards # NULL /\ Len(optCards) = 9
    /\ optCurrent > 0
    /\ optResult.optimalScore > optCurrent

\* C4: given nine cards, percentage is a nearest integer to
\* 100 * currentScore / bestScore and lies in 0..100 when bestScore > 0, and
\* is 100 when bestScore = 0.
C4_PercentageBounds ==
    (optPc = "done" /\ optCards # NULL /\ Len(optCards) = 9)
        => LET best == optResult.optimalScore
               pct == optResult.percentage
               diff == 100 * optCurrent - pct * best
           IN  /\ pct \in 0 .. 100
               /\ best > 0 => 2 * diff <= best /\ 2 * (0 - diff) <= best
               /\ best = 0 => pct = 100

C4_Witness ==
    /\ optPc = "done" /\ optCards # NULL /\ Len(optCards) = 9
    /\ optResult.optimalScore > 0
    /\ optResult.percentage \in 1 .. 99

\* C6: when cards is absent or does not hold exactly nine cards,
\* calculateOptimal evaluates no arrangement and returns the currentScore it
\* was given with percentage 100.
C6_FallbackResult ==
    (optCards = NULL \/ Len(optCards) # 9)
        => /\ optEvals = 0
           /\ optPc = "done" =>
                  optResult = [optimalScore |-> optCurrent, percentage |-> 100]

C6_Witness ==
    /\ optPc = "done"
    /\ optCards # NULL /\ Len(optCards) = 10
    /\ optCurrent = 25
    /\ optResult.percentage = 100

\* C11: calculateScore of the board of nine empty slots has total,
\* totalSlot, totalRarity and totalConnections all 0, no couple edges,
\* allFilled false and allValid false.
C11_EmptyBoardScore ==
    (board = EmptyBoard /\ score # NULL)
        => /\ score.total = 0 /\ score.totalSlot = 0
           /\ score.totalRarity = 0 /\ score.totalConnections = 0
           /\ score.coupleEdges = << >>
           /\ score.allFilled = FALSE
           /\ score.allValid = FALSE

C11_Witness == board = EmptyBoard /\ calls >= 1 /\ score # NULL

C13_PoolNeverChanges ==
    [][contestants' = contestants]_vars

\* The rng after k further draws, and the last value drawn.
RECURSIVE DrawsAhead(_, _)
DrawsAhead(seed, k) ==
    IF k = 0 THEN [seed |-> seed, value |-> Num(0, 0)]
    ELSE Mulberry32Draw(DrawsAhead(seed, k - 1).seed)

\* How often x occurs in the sequence.
Count(seq, x) == Cardinality({k \in DOMAIN seq : seq[k] = x})

\* The array after the first k exchanges of position n - m with js[m].
RECURSIVE Exchanged(_, _, _)
Exchanged(arr, js, k) ==
    IF k = 0 THEN arr
    ELSE LET prev == Exchanged(arr, js, k - 1)
             i == Len(arr) - k
             j == js[k]
         IN  [m \in DOMAIN arr |->
                IF m = i + 1 THEN prev[j + 1]
                ELSE IF m = j + 1 THEN prev[i + 1] ELSE prev[m]]

\* C14: seededShuffle returns a permutation of its input; it visits i from
\* length - 1 down to 1, draws once per step (length - 1 draws in all) and
\* exchanges position i with j = floor(draw * (i + 1)), 0 <= j <= i.
C14_ShuffleIsPermutation ==
    shuffleOut # NULL =>
        LET input == shuffleOut.input
            arr == shuffleOut.arr
            js == shuffleOut.js
            n == Len(input)
            steps == Max(n - 1, 0)
        IN  /\ Len(arr) = n
            /\ \A k \in 1 .. n : Count(arr, input[k]) = Count(input, input[k])
            /\ Len(js) = steps
            /\ shuffleOut.rng = DrawsAhead(shuffleOut.before, steps).seed
            /\ \A k \in 1 .. steps :
                   /\ js[k] \in 0 .. (n - k)
                   /\ js[k] = FloorTimes(DrawsAhead(shuffleOut.before, k).value,
                                         n - k + 1)
            /\ arr = Exchanged(input, js, steps)
            /\ contestants = arr

C14_Witness ==
    /\ shuffleOut # NULL
    /\ Len(shuffleOut.input) = MaxShufflePool
    /\ shuffleOut.arr # shuffleOut.input
    /\ \E k \in 1 .. Len(shuffleOut.js) : shuffleOut.js[k] = Len(shuffleOut.input) - k

\* The sum of the first t probabilities of a row.
RECURSIVE CumulativeUpTo(_, _)
CumulativeUpTo(row, t) ==
    IF t = 0 THEN 0 ELSE CumulativeUpTo(row, t - 1) + row[t]

\* C15: rollStarRating draws once and returns the first tier, in order
\* 1, 2, 3, 4, whose cumulative probability in the round's row is greater
\* than the draw, and tier 1 when there is none; the result is in 1..4.
C15_FirstTierAboveDraw ==
    \A n \in DOMAIN rollOut :
        LET call == rollOut[n]
            draw == Mulberry32Draw(call.before)
            row == RARITY_TABLE[Min(call.round, Len(RARITY_TABLE) - 1) + 1]
            above == {t \in 1 .. 4 : RollBelow(draw.value, CumulativeUpTo(row, t))}
        IN  /\ call.rng = draw.seed
            /\ call.stars \in 1 .. 4
            /\ above # {} => call.stars \in above /\ \A t \in above : call.stars <= t
            /\ above = {} => call.stars = 1

C15_Witness ==
    \E n \in DOMAIN rollOut :
        /\ rollOut[n].stars >= 3
        /\ rollOut[n].rng # rollOut[n].before

\* C16: in RARITY_TABLE the probability of tier 1 never decreases from one
\* round to the next, and the four probabilities of every row sum to 1
\* (100 hundredths).
C16_RarityTableShape ==
    \A n \in DOMAIN rollOut :
        LET r == Min(rollOut[n].round, Len(RARITY_TABLE) - 1) + 1
        IN  /\ \A q \in 1 .. (r - 1) : RARITY_TABLE[q][1] <= RARITY_TABLE[q + 1][1]
            /\ \A q \in 1 .. r :
                   /\ Len(RARITY_TABLE[q]) = 4
                   /\ CumulativeUpTo(RARITY_TABLE[q], 4) = 100

C16_Witness ==
    /\ {rollOut[n].round : n \in DOMAIN rollOut} = {Len(RARITY_TABLE) - 1}
    /\ \E n \in DOMAIN rollOut : rollOut[n].stars = 1


\* The slots holding the card (the object, not an equal one).
SlotsHolding(card) == {s \in Slots : board[s] = card}

\* C17: whatever initGame, draftToCell, draftContestant, swapCells and
\* selectCell calls were made, every drafted card is on exactly one board
\* slot, and the number of occupied slots equals state.round and the length
\* of state.drafted.
C17_DraftedOnceOnBoard ==
    /\ \A k \in DOMAIN drafted : Cardinality(SlotsHolding(drafted[k])) = 1
    /\ Cardinality({s \in Slots : board[s] # NULL}) = stateRound
    /\ stateRound = Len(drafted)

\* Nine cards drafted, the last onto slot 4, and the first card on slot 1,
\* where only a displacement from slot 4 can have put it.
C17_Witness ==
    /\ stateRound = NUM_ROUNDS /\ phase = "optimizing"
    /\ board[4] = drafted[NUM_ROUNDS]
    /\ board[1] = drafted[1]


\* C18: for every board, each slot empty or holding a card, _fastScore of the
\* board (every edge once, doubled) equals the total of calculateScore of
\* the board (every connection from both of its ends).
C18_FastScoreIsTotal == score # NULL => _fastScore(board) = score.total

\* A scored board with an empty slot, a matched slot and a connection.
C18_Witness ==
    /\ score # NULL /\ ~score.allFilled
    /\ score.totalSlot > 0 /\ score.totalConnections > 0
    /\ _fastScore(board) > 0


RECURSIVE Factorial(_)
Factorial(n) == IF n = 0 THEN 1 ELSE n * Factorial(n - 1)

\* C19: given nine cards, every arrangement the loop of calculateOptimal
\* evaluates had not been evaluated before; the loop ends after 9!
\* evaluations, so every permutation is evaluated once; and the best score
\* it ends with is no less than _fastScore of any arrangement, here each of
\* the nine rotations of the cards.
C19_EveryPermutationOnce ==
    /\ permSeen.distinct = permSt.evals
    /\ permSt.evals <= Factorial(9)
    /\ permSt.i >= 9 =>
          /\ permSt.evals = Factorial(9)
          /\ \A p \in 0 .. 8 :
                 permSt.bestScore >= _fastScore(PlaceFrom(Hand(1), p))

\* The loop has ended, on cards that score differently when arranged
\* differently.
C19_Witness ==
    /\ permSt.i >= 9 /\ permSt.evals > 1
    /\ \E p \in 0 .. 8 : _fastScore(PlaceFrom(Hand(1), p)) < permSt.bestScore


\* What the pair rules award card a for its neighbour b.
PairAward(a, b) ==
    (IF a.show = b.show /\ a.seasonNum = b.seasonNum THEN 5
     ELSE IF a.show = b.show THEN 2
     ELSE IF a.seasonNum = b.seasonNum THEN 1
     ELSE 0)
        + (IF (a.couple # "" /\ a.couple = b.name)
                \/ (b.couple # "" /\ b.couple = a.name) THEN 4 ELSE 0)

\* C20: two cards on adjacent slots each get from the other 5 points if they
\* share show and season, 2 if only the show, 1 if only the season, else 0,
\* plus 4 if either's couple field names the other; and the award for
\* sharing both exceeds the country and season awards added together.
C20_PairRules ==
    score # NULL =>
        /\ \A e \in 1 .. Len(EDGES) :
              LET i == EDGES[e][1]
                  j == EDGES[e][2]
              IN  (board[i] # NULL /\ board[j] # NULL) =>
                      /\ ConnPoints(score, i, j) = PairAward(board[i], board[j])
                      /\ ConnPoints(score, j, i) = PairAward(board[j], board[i])
        /\ COUNTRY_MATCH_PTS + SEASON_MATCH_PTS + COUNTRY_SEASON_COMBO
              > COUNTRY_MATCH_PTS + SEASON_MATCH_PTS

\* A scored board with a pair sharing show and season and a couple that
\* shares neither.
C20_Witness ==
    /\ score # NULL
    /\ \E e \in 1 .. Len(EDGES) : ConnPoints(score, EDGES[e][1], EDGES[e][2]) = 5
    /\ \E e \in 1 .. Len(EDGES) : ConnPoints(score, EDGES[e][1], EDGES[e][2]) = 4

-----------------------------------------------------------------------------
(***************************************************************************)
(* SpecDay: the Game controller together with Storage and the clock, from  *)
(* a page load on a day on which games 1 and 2 were already played.        *)
(***************************************************************************)
\* Days from 1970-01-01 to date d: new Date("YYYY-MM-DD") / 86400000.
DayNumber(d) ==
    LET y == IF d.month <= 2 THEN d.year - 1 ELSE d.year
        era == y \div 400
        yoe == y - era * 400
        mp == (d.month + 9) % 12
        doy == ((153 * mp + 2) \div 5) + d.day - 1
        doe == yoe * 365 + (yoe \div 4) - (yoe \div 100) + doy
    IN  era * 146097 + doe - 719468

NextDay(d) ==
    IF d.day < DaysInMonth(d.year, d.month) THEN [d EXCEPT !.day = d.day + 1]
    ELSE IF d.month < 12 THEN [year |-> d.year, month |-> d.month + 1, day |-> 1]
    ELSE [year |-> d.year + 1, month |-> 1, day |-> 1]

\* The days the clock shows.
Day1 == Date(MaxYear, 11, 4)
Day2 == NextDay(Day1)
Days == <<Day1, Day2>>

\* The suffixes of the daily_ keys written: a date, or null ("daily_null").
DayKeys == {NULL, Day1, Day2}

GameNumbers == 0 .. 3

\* { completed: false, score: 0, finalBoard: null }; an undefined gameN
\* property reads the same way (not completed).
NOT_PLAYED == [completed |-> FALSE, score |-> 0, finalBoard |-> NULL]

\* The object getDailyProgress falls back to; an absent daily_ entry is
\* held as this object (_get(key) || {...}).
NO_PROGRESS == [g \in GameNumbers |-> NOT_PLAYED]

\* The object getStats falls back to; averageScore is held in tenths.
NO_STATS ==
    [gamesPlayed |-> 0, totalScore |-> 0, averageScore |-> 0, bestScore |-> 0,
     currentStreak |-> 0, longestStreak |-> 0, perfectGrids |-> 0,
     lastPlayedDate |-> NULL]

\* getDailyProgress(date): key 'daily_' + (date || todayStr())
getDailyProgress(date) == progress[IF date = NULL THEN today ELSE date]

\* Storage.completeGame(date, gameNumber, score, finalBoard): the progress
\* read under date || today is written back under 'daily_' + date.
StorageCompleteGame(date, gameNumber, total, finalBoard) ==
    [progress EXCEPT ![date] =
        [getDailyProgress(date) EXCEPT ![gameNumber] =
            [completed |-> TRUE, score |-> total,
             finalBoard |-> [cells |-> finalBoard]]]]

getNextGameNumber(date) ==
    IF ~getDailyProgress(date)[1].completed THEN 1
    ELSE IF ~getDailyProgress(date)[2].completed THEN 2
    ELSE IF ~getDailyProgress(date)[3].completed THEN 3
    ELSE 0

\* Math.round((totalScore / gamesPlayed) * 10), the average in tenths.
RoundedTenths(sum, n) == (20 * sum + n) \div (2 * n)

\* Storage.updateStats(score, isPerfectGrid, date) on the stats st, at a
\* time when todayStr() is now.
updateStats(st, total, isPerfectGrid, date, now) ==
    LET day == IF date = NULL THEN now ELSE date
        diffDays == DayNumber(day) - DayNumber(st.lastPlayedDate)
        streak == IF st.lastPlayedDate # NULL
                  THEN IF diffDays <= 1
                       THEN IF diffDays = 1 THEN st.currentStreak + 1
                            ELSE st.currentStreak
                       ELSE 1
                  ELSE 1
    IN  [gamesPlayed |-> st.gamesPlayed + 1,
         totalScore |-> st.totalScore + total,
         averageScore |-> RoundedTenths(st.totalScore + total, st.gamesPlayed + 1),
         bestScore |-> Max(st.bestScore, total),
         currentStreak |-> streak,
         longestStreak |-> Max(st.longestStreak, streak),
         perfectGrids |-> st.perfectGrids + (IF isPerfectGrid THEN 1 ELSE 0),
         lastPlayedDate |-> day]

MaxGamesPlayed == 3     \* games recorded in the statistics, at most

\* The games that can be started: every game number getNextGameNumber can
\* return, on each day, with the contestant database of the site.
DaySetups ==
    [k \in 1 .. (Len(Days) * 4) |->
        [contestants |-> Pool(MaxGamePool), gameNumber |-> (k - 1) % 4,
         date |-> Days[((k - 1) \div 4) + 1]]]

SetupIndex(date, gameNumber) ==
    CHOOSE k \in DOMAIN DaySetups :
        DaySetups[k].date = date /\ DaySetups[k].gameNumber = gameNumber

\* The seed as mulberry32 reads it (seed |= 0).  For a game number outside
\* 1..3, multipliers[gameNumber - 1] is undefined, the product is NaN, and
\* NaN | 0 is 0.
SeedRead(date, gameNumber) ==
    IF gameNumber \in DOMAIN multipliers
    THEN getDailySeed(date, gameNumber, 0)
    ELSE Num(0, 0)

DayDraftOf(k) ==
    CHOOSE r \in {generateAllRounds(c, seed) :
                    c \in {DaySetups[k].contestants},
                    seed \in {SeedRead(DaySetups[k].date,
                                       DaySetups[k].gameNumber)}} : TRUE

DayDraft == [k \in DOMAIN DaySetups |-> DayDraftOf(k)]

\* The board of a game played by taking the first option of every round
\* with draftContestant, as JSON keeps it.
PlayedBoard(draft) == [s \in Slots |-> Stored(draft.rounds[s + 1][1])]

\* Storage after game g of Day1 was played that way and locked in.
RECURSIVE StatsAfter(_, _)
StatsAfter(memo, g) ==
    IF g = 0 THEN NO_STATS
    ELSE LET sc == calculateScore(PlayedBoard(memo[g + 1]))
         IN  updateStats(StatsAfter(memo, g - 1), sc.total, sc.allValid,
                         Day1, Day1)

ProgressAfter(memo, n) ==
    [key \in DayKeys |->
        IF key = Day1
        THEN [g \in GameNumbers |->
                IF g \in 1 .. n
                THEN [completed |-> TRUE,
                      score |-> calculateScore(PlayedBoard(memo[g + 1])).total,
                      finalBoard |-> [cells |-> PlayedBoard(memo[g + 1])]]
                ELSE NOT_PLAYED]
        ELSE NO_PROGRESS]

\* The calls made: the cells swapped, the option drafted.
DaySwapInputs == {<<0, 4>>}
DayDraftInputs == {0}
LockInRounds == {1, NUM_ROUNDS}

InitDay ==
    /\ board = EmptyBoard /\ score = NULL /\ prevScore = NULL /\ calls = 0
    /\ phase = "idle" /\ stateRound = 0 /\ drafted = << >>
    /\ selectedIndex = NO_SELECTION /\ allRounds = << >>
    /\ stateDate = NULL /\ stateGameNumber = 0 /\ savedState = NULL
    /\ draftMemo = DayDraft
    /\ today = Day1
    /\ progress = ProgressAfter(draftMemo, 2)
    /\ stats = StatsAfter(draftMemo, 2)
    /\ returned = NO_RETURN
    /\ OptIdle /\ DraftIdle /\ SeedIdle /\ PermIdle

\* startNextGame: Game.initGame(contestantsDB, getNextGameNumber(today), today)
startNextGame == InitGameOf(DaySetups, SetupIndex(today, getNextGameNumber(today)))

\* resumeGame(savedState): Object.assign(state, savedState), selectedIndex
\* null, recalcScore (an exception ends the handler there), notifyUI.
resumeGame(saved) ==
    /\ stateDate' = saved.date
    /\ stateGameNumber' = saved.gameNumber
    /\ stateRound' = saved.round
    /\ allRounds' = saved.allRounds
    /\ board' = saved.board
    /\ drafted' = saved.drafted
    /\ phase' = saved.phase
    /\ selectedIndex' = NO_SELECTION
    /\ score' = IF ScoreThrows(saved.board) THEN score
                ELSE calculateScore(saved.board)

\* Faulty variant: the date of the saved state is not looked at.
ResumableAnyDay(saved) == saved # NULL /\ saved.phase # "completed"

\* The saved state passes the three tests of tryResume.
Resumable(saved) ==
    saved # NULL /\ saved.date = today /\ saved.phase # "completed"

tryResume ==
    /\ IF savedState = NULL
       THEN /\ returned' = [op |-> "tryResume", value |-> FALSE]
            /\ UNCHANGED <<savedState, phase, stateRound, drafted,
                           selectedIndex, allRounds, stateDate,
                           stateGameNumber, board, score>>
       ELSE IF ~Resumable(savedState)
       THEN /\ savedState' = NULL
            /\ returned' = [op |-> "tryResume", value |-> FALSE]
            /\ UNCHANGED <<phase, stateRound, drafted, selectedIndex,
                           allRounds, stateDate, stateGameNumber, board, score>>
       ELSE /\ resumeGame(savedState)
            /\ returned' = [op |-> "tryResume", value |-> TRUE]
            /\ UNCHANGED savedState
    /\ UNCHANGED <<draftMemo, prevScore, calls, optVars, draftVars, seedVars,
                   permVars, storeVars>>

\* init, on DOMContentLoaded: the module's state object is new; the saved
\* game is resumed, or else the next game of the day is started.
init ==
    IF Resumable(savedState)
    THEN /\ resumeGame(savedState)
         /\ contestants' = << >>
         /\ returned' = NO_RETURN
         /\ UNCHANGED <<savedState, draftMemo, prevScore, calls, optVars,
                        seedArg, draftOut, callerRng, shuffleOut, rollOut,
                        seedVars, permVars, storeVars>>
    ELSE startNextGame

completeGame ==
    IF phase = "completed"
    THEN /\ returned' = [op |-> "completeGame", score |-> score]
         /\ UNCHANGED <<scoreVars, optVars, draftVars, seedVars, gameVars,
                        permVars, storeVars>>
    ELSE /\ phase' = "completed"
         /\ IF ScoreThrows(board)
            THEN /\ returned' = NO_RETURN
                 /\ UNCHANGED <<score, savedState, progress, stats>>
            ELSE /\ score' = calculateScore(board)
                 /\ progress' = StorageCompleteGame(stateDate, stateGameNumber,
                                      score'.total,
                                      [s \in Slots |-> Stored(board[s])])
                 /\ stats' = updateStats(stats, score'.total, score'.allValid,
                                         stateDate, today)
                 /\ savedState' = NULL
                 /\ returned' = [op |-> "completeGame", score |-> score']
         /\ UNCHANGED <<board, prevScore, calls, stateRound, drafted,
                        selectedIndex, allRounds, stateDate, stateGameNumber,
                        draftMemo, today, optVars, draftVars, seedVars,
                        permVars>>

\* The completeGame calls made: on a game not yet completed, after one of
\* LockInRounds rounds and while the statistics hold fewer than
\* MaxGamesPlayed games; on a completed game, always.
LockIn ==
    /\ \/ phase = "completed"
       \/ stateRound \in LockInRounds /\ stats.gamesPlayed < MaxGamesPlayed
    /\ completeGame

\* Midnight UTC: todayStr() returns the next date from now on.
DayPasses ==
    /\ today = Day1
    /\ today' = Day2
    /\ UNCHANGED <<scoreVars, optVars, draftVars, seedVars, gameVars,
                   permVars, progress, stats, returned>>

NextDayActions ==
    \/ startNextGame
    \/ init
    \/ tryResume
    \/ \E o \in DayDraftInputs : draftContestant(o)
    \/ \E p \in DaySwapInputs : swapCells(p[1], p[2])
    \/ LockIn
    \/ DayPasses

SpecDay == InitDay /\ [][NextDayActions]_vars

-----------------------------------------------------------------------------
(***************************************************************************)
(* Cell scoring, completeness flags and couple edges (SpecScore).          *)
(***************************************************************************)
\* The card on slot s carries the tag the slot requires.
CarriesSlotTag(s) == SLOT_TAGS[s] \in board[s].tags

\* C21: an empty slot has every sub-score 0 and validity null; a card on a
\* wildcard slot is valid and earns 0 slot points whatever its tags; a card
\* on a required-tag slot earns SLOT_MATCH_PTS (2) when its tags contain
\* the slot's tag and 0 otherwise; isValidPlacement is true exactly for
\* wildcard slots and matching tags.
C21_CellScoring ==
    score # NULL =>
        \A s \in 0 .. 8 :
            LET cell == score.cellScores[s]
            IN  IF board[s] = NULL
                THEN /\ cell.slotPoints = 0 /\ cell.rarityPoints = 0
                     /\ cell.connectionPoints = 0 /\ cell.totalPoints = 0
                     /\ cell.isValid = "null"
                ELSE IF SLOT_TAGS[s] = NULL_TAG
                THEN /\ cell.isValid = "true" /\ cell.slotPoints = 0
                     /\ isValidPlacement(board[s], s)
                ELSE /\ cell.slotPoints = (IF CarriesSlotTag(s) THEN 2 ELSE 0)
                     /\ cell.isValid = Tri(CarriesSlotTag(s))
                     /\ isValidPlacement(board[s], s) = CarriesSlotTag(s)

\* A scored board with an empty slot, a card on a wildcard slot, a card on
\* a tagged slot it matches and a card on a tagged slot it does not match.
C21_Witness ==
    /\ score # NULL
    /\ \E s \in 0 .. 8 : board[s] = NULL
    /\ \E s \in 0 .. 8 : board[s] # NULL /\ SLOT_TAGS[s] = NULL_TAG
    /\ \E s \in 0 .. 8 : /\ board[s] # NULL /\ SLOT_TAGS[s] # NULL_TAG
                          /\ CarriesSlotTag(s)
                          /\ score.cellScores[s].slotPoints = SLOT_MATCH_PTS
    /\ \E s \in 0 .. 8 : /\ board[s] # NULL /\ SLOT_TAGS[s] # NULL_TAG
                          /\ ~CarriesSlotTag(s)
                          /\ score.cellScores[s].isValid = "false"

AllOccupied == \A s \in 0 .. 8 : board[s] # NULL

\* Every slot that holds a card and requires a tag holds a card with it.
FilledTaggedSlotsMatch ==
    \A s \in 0 .. 8 :
        (board[s] # NULL /\ SLOT_TAGS[s] # NULL_TAG) => CarriesSlotTag(s)

\* C22 as stated: allFilled is true exactly when all 9 slots are occupied,
\* and allValid is true exactly when every filled, non-wildcard slot holds
\* a card carrying the slot's required tag.
C22_FlagsAsStated ==
    score # NULL =>
        /\ score.allFilled = AllOccupied
        /\ score.allValid = FilledTaggedSlotsMatch

\* C22, amended: allFilled is true exactly when all 9 slots are occupied,
\* and allValid is true exactly when all 9 slots are occupied and every
\* non-wildcard slot holds a card carrying the slot's required tag.
C22_Flags ==
    score # NULL =>
        /\ score.allFilled = AllOccupied
        /\ score.allValid = (AllOccupied /\ FilledTaggedSlotsMatch)

\* A scored partial board whose filled tagged slots all match (allValid is
\* false there only because of the empty slots).
C22_Witness ==
    /\ score # NULL
    /\ ~AllOccupied
    /\ \E s \in 0 .. 8 : board[s] # NULL /\ SLOT_TAGS[s] # NULL_TAG
    /\ FilledTaggedSlotsMatch
    /\ ~score.allValid /\ ~score.allFilled

\* The two cards of topology edge e are a couple (either names the other).
CoupleOnEdge(e) ==
    LET a == board[EDGES[e][1]]
        b == board[EDGES[e][2]]
    IN  /\ a # NULL /\ b # NULL
        /\ \/ (a.couple # "" /\ a.couple = b.name)
           \/ (b.couple # "" /\ b.couple = a.name)

\* The entries of coupleEdges that name the unordered pair of edge e.
EntriesFor(e) ==
    {k \in 1 .. Len(score.coupleEdges) :
        {score.coupleEdges[k].index1, score.coupleEdges[k].index2}
            = {EDGES[e][1], EDGES[e][2]}}

\* C23: coupleEdges contains each topology edge whose two cards are a
\* couple exactly once (as an unordered pair of slot indices) and nothing
\* else.
C23_CoupleEdgesOnce ==
    score # NULL =>
        /\ \A e \in 1 .. Len(EDGES) :
              Cardinality(EntriesFor(e)) = (IF CoupleOnEdge(e) THEN 1 ELSE 0)
        /\ \A k \in 1 .. Len(score.coupleEdges) :
              \E e \in 1 .. Len(EDGES) : k \in EntriesFor(e) /\ CoupleOnEdge(e)

\* A scored board with a couple on one edge and a non-couple on another:
\* the couple connection is on both cells, the edge is listed once.
C23_Witness ==
    /\ score # NULL
    /\ Len(score.coupleEdges) = 1
    /\ \E e \in 1 .. Len(EDGES) :
          /\ CoupleOnEdge(e)
          /\ \E t \in 1 .. Len(score.cellScores[EDGES[e][1]].connections) :
                IsCoupleConn(score.cellScores[EDGES[e][1]].connections[t])
          /\ \E t \in 1 .. Len(score.cellScores[EDGES[e][2]].connections) :
                IsCoupleConn(score.cellScores[EDGES[e][2]].connections[t])
    /\ \E e \in 1 .. Len(EDGES) :
          /\ board[EDGES[e][1]] # NULL /\ board[EDGES[e][2]] # NULL
          /\ ~CoupleOnEdge(e)

-----------------------------------------------------------------------------
(***************************************************************************)
(* The Game controller over a day (SpecDay, SpecGame).                     *)
(***************************************************************************)
\* A step of a Game operation other than initGame and resumeGame.
PlayStep ==
    \/ \E o \in DayDraftInputs : draftContestant(o)
    \/ \E p \in DaySwapInputs : swapCells(p[1], p[2])
    \/ LockIn

\* C24: apart from initGame and resumeGame, the phase only advances in the
\* order idle, drafting, optimizing, completed: optimizing is entered
\* exactly when the round counter reaches NUM_ROUNDS, and completed is
\* entered only from optimizing.
C24_PhaseOrder ==
    [][PlayStep =>
        /\ \/ phase' = phase
           \/ phase = "drafting" /\ phase' = "optimizing"
           \/ phase = "optimizing" /\ phase' = "completed"
        /\ (phase # "optimizing" /\ phase' = "optimizing")
              <=> (stateRound # NUM_ROUNDS /\ stateRound' = NUM_ROUNDS)]_vars

\* The part of C24 that holds: optimizing is entered from drafting, exactly
\* when the round counter reaches NUM_ROUNDS, and no phase is left for an
\* earlier one.
C24_DraftingToOptimizing ==
    [][PlayStep =>
        /\ \/ phase' = phase
           \/ phase = "drafting" /\ phase' = "optimizing"
           \/ phase' = "completed"
        /\ (phase # "optimizing" /\ phase' = "optimizing")
              <=> (stateRound # NUM_ROUNDS /\ stateRound' = NUM_ROUNDS)]_vars

\* The in-memory game: the fields of the state object a resume assigns.
inMemory ==
    <<board, score, phase, stateRound, drafted, selectedIndex, allRounds,
      stateDate, stateGameNumber>>

\* C25: tryResume resumes a game and returns true only when a saved state
\* exists, its date is today and its phase is not completed; a saved state
\* from another day or a completed one is cleared from storage and
\* tryResume returns false, leaving the in-memory game untouched.
C25_TryResume ==
    [][tryResume =>
        LET exists == savedState # NULL
            fresh == savedState.date = today /\ savedState.phase # "completed"
        IN  /\ returned'.op = "tryResume"
            /\ returned'.value = (exists /\ fresh)
            /\ (exists /\ fresh) =>
                  /\ board' = savedState.board
                  /\ stateRound' = savedState.round
                  /\ phase' = savedState.phase
                  /\ drafted' = savedState.drafted
                  /\ stateDate' = today
                  /\ stateGameNumber' = savedState.gameNumber
                  /\ savedState' = savedState
            /\ (exists /\ ~fresh) =>
                  /\ savedState' = NULL
                  /\ UNCHANGED inMemory
            /\ ~exists => UNCHANGED <<inMemory, savedState>>]_vars

\* tryResume has just refused and cleared yesterday's saved game, and the
\* game in memory is still yesterday's, in progress.
C25_Witness ==
    /\ returned.op = "tryResume" /\ ~returned.value
    /\ savedState = NULL
    /\ today = Day2 /\ stateDate = Day1
    /\ phase \in {"drafting", "optimizing"} /\ stateRound > 0

\* What is persisted: the saved game, the daily progress, the statistics.
persisted == <<savedState, progress, stats>>

\* C26: once the phase is completed, no Game operation other than initGame
\* or resumeGame changes the board, the score, or what is persisted.
C26_CompletedIsFinal ==
    [][(phase = "completed" /\ PlayStep)
          => UNCHANGED <<board, score, persisted>>]_vars

\* The part of C26 that holds: on a completed game draftToCell and
\* completeGame change nothing of it.
C26_ButForSwapCells ==
    [][(phase = "completed"
          /\ (LockIn \/ \E o \in DayDraftInputs : draftContestant(o)))
          => UNCHANGED <<board, score, persisted>>]_vars

\* Option optionIndex is among the cards offered in the current round.
Offered(optionIndex) ==
    /\ stateRound + 1 \in DOMAIN allRounds
    /\ optionIndex + 1 \in DOMAIN allRounds[stateRound + 1]

\* C27: draftToCell places a card only when optionIndex names a card
\* offered in the current round; for any other option index it leaves
\* board, drafted list, round and phase unchanged.
C27_OnlyOfferedOptions ==
    [][\A p \in DraftToCellInputs :
          (draftToCell(p[1], p[2]) /\ ~Offered(p[1]))
              => UNCHANGED <<board, drafted, stateRound, phase>>]_vars

\* C28: in every reachable state the game number of the running game is
\* 1, 2 or 3.
C28_GameNumberInRange == phase # "idle" => stateGameNumber \in 1 .. 3

\* A step of initGame, draftToCell or swapCells that changed the game.
ChangingStep ==
    /\ \/ startNextGame
       \/ \E o \in DayDraftInputs : draftContestant(o)
       \/ \E p \in DaySwapInputs : swapCells(p[1], p[2])
    /\ inMemory' # inMemory

\* C29: whenever initGame, draftToCell or swapCells returns having changed
\* the game, the saved state has the date, game number, round, board,
\* drafted list and phase of the in-memory state, and a tryResume on the
\* same day restores it.
C29_SavedAndResumable ==
    [][ChangingStep =>
          /\ savedState' = Snapshot'
          /\ savedState'.date = today' => Resumable(savedState)']_vars

\* The part of C29 that holds: the saved state is the in-memory state.
C29_SavedIsInMemory ==
    [][ChangingStep => savedState' = Snapshot']_vars

\* C30: the first completeGame call sets the phase to completed, writes
\* the score to the day's progress, adds one game to the statistics and
\* clears the saved game; any further call on that game returns the same
\* score and changes neither statistics nor daily progress.
C30_CompletedOnce ==
    [][LockIn =>
          IF phase # "completed"
          THEN /\ phase' = "completed"
               /\ progress'[stateDate][stateGameNumber].completed
               /\ progress'[stateDate][stateGameNumber].score = score'.total
               /\ stats'.gamesPlayed = stats.gamesPlayed + 1
               /\ savedState' = NULL
               /\ returned'.score = score'
          ELSE /\ returned'.score.total
                     = progress[stateDate][stateGameNumber].score
               /\ UNCHANGED <<stats, progress>>]_vars

\* The part of C30 that holds: a further call returns the score the state
\* holds at that time and changes nothing.
C30_FurtherCallsChangeNothing ==
    [][(LockIn /\ phase = "completed")
          => /\ returned'.score = score
             /\ UNCHANGED <<inMemory, persisted>>]_vars

=============================================================================
